---- MODULE Spec2Model ----
(***************************************************************************)
(* Model of the two screen controllers of the restaurant administration    *)
(* front end: Billing (src/src/components/views/Billing.tsx) and Menu      *)
(* (src/unnamed/part_000), together with the hosted data store they call.  *)
(*                                                                         *)
(* One screen is mounted per behaviour (variable screen).  Every async     *)
(* handler invocation is a task: it runs synchronously up to its next      *)
(* await, the data store executes the awaited request at some later step   *)
(* (Backend) and the task's continuation runs at a still later step.       *)
(* A task keeps the values its closure captured when the handler was       *)
(* invoked (React state of that render).                                   *)
(*                                                                         *)
(* Money is an integer number of 1/100 paisa (1/10000 rupee), so that      *)
(* 5% of any whole-paisa amount is exact.  Floating-point representation   *)
(* error of the JavaScript numbers is not modelled.                        *)
(***************************************************************************)
EXTENDS Integers, Sequences, FiniteSets, TLC

\* ------------------------------------------------------------------ bounds
MaxRows == 2      \* draft rows of one bill (Spec)
MaxOps == 1       \* mutating handler invocations of one behaviour (Spec)
MaxDraftRows == 2 \* draft rows of one bill (SpecDraft)
MaxRaceOps == 2   \* mutating handler invocations of one behaviour (SpecRace)

\* ------------------------------------------------------- program constants
Paisa == 100      \* one input step of a price (0.01 rupee) in model units
TaxPercent == 5   \* subtotal * 0.05

Rupees(n) == n * 100 * Paisa

\* --------------------------------------------------------- value domains
NoCategory == 0                       \* category_id: ''
Names == <<"", "Garlic Bread", "Margherita">>   \* in the data store's name order
NameRank(n) == CHOOSE i \in 1..Len(Names) : Names[i] = n

Quantities == {1, 2}
OverridePrices == {10 * Paisa}        \* 0.10 typed into a row's price input
DraftQuantities == {0, 1, 2}
DraftPrices == {10 * Paisa, Rupees(50), Rupees(100)}
DraftItemIds == {1, 2, 3}             \* 3: an id no menu item has
PaymentStatuses == {"paid", "pending"}
CustomerNames == {"", "Asha"}
CategoryNames == {"", "Pasta"}
ItemPrices == {0, Rupees(80)}

Outcomes == {"ok", "error", "reject"}
\* "error": the client resolves with {data: null, error}; "reject": the
\* promise rejects (the handlers' catch blocks)

Pending == [st |-> "pending", data |-> <<>>]
Result(st, data) == [st |-> st, data |-> data]

user == [id |-> "u1"]

\* ------------------------------------------------------------- sequences
RECURSIVE SeqSum(_)
SeqSum(s) == IF s = <<>> THEN 0 ELSE Head(s) + SeqSum(Tail(s))

RemoveAt(s, i) == [j \in 1..(Len(s) - 1) |-> IF j < i THEN s[j] ELSE s[j + 1]]

\* the rows of S as a sequence in increasing order of key[row] (keys distinct)
RECURSIVE SortedBy(_, _)
SortedBy(S, key) ==
  IF S = {} THEN <<>>
  ELSE LET first == CHOOSE x \in S : \A y \in S : key[x] <= key[y]
       IN <<first>> \o SortedBy(S \ {first}, key)

Range(s) == {s[i] : i \in 1..Len(s)}

\* ------------------------------------------------------------------ state
VARIABLES
  screen,               \* the mounted screen: "billing" or "menu"
  db_menu_categories,   \* data store, table menu_categories
  db_menu_items,        \* data store, table menu_items
  db_bills,             \* data store, table bills
  db_bill_items,        \* data store, table bill_items
  db_seq,               \* data store: last id handed out, per menu table
  loading,              \* useState: loading (of the mounted screen)
  menuItems,            \* useState: menuItems (of the mounted screen)
  bills,                \* Billing useState: bills
  showModal,            \* Billing useState: showModal
  selectedItems,        \* Billing useState: selectedItems (the draft rows)
  formData,             \* Billing useState: formData
  totals,               \* Billing render: calculateTotals() of the draft rows
  categories,           \* Menu useState: categories
  showCategoryForm,     \* Menu useState
  showItemForm,         \* Menu useState
  editingCategory,      \* Menu useState (NoEntity: null)
  editingItem,          \* Menu useState (NoEntity: null)
  expandedCategories,   \* Menu useState: set of category ids
  categoryForm,         \* Menu useState
  itemForm,             \* Menu useState
  tasks,                \* async handler invocations in flight, in issue order
  ev,                   \* the step just taken: handler, argument, alerts raised
  ops,                  \* history: mutating handler invocations so far
  submitted             \* history: bill id -> draft rows when it was submitted

dbVars == <<db_menu_categories, db_menu_items, db_bills, db_bill_items, db_seq>>
billingVars == <<bills, showModal, selectedItems, formData, totals>>
menuVars == <<categories, showCategoryForm, showItemForm, editingCategory,
              editingItem, expandedCategories, categoryForm, itemForm>>
hist == <<ops, submitted>>
vars == <<screen, dbVars, loading, menuItems, billingVars, menuVars, tasks, ev,
          hist>>

Ev(op, arg, alerts) == [op |-> op, arg |-> arg, alerts |-> alerts]

NoEntity == [id |-> 0]

EmptyFormData ==
  [customer_name |-> "", customer_phone |-> "", payment_method |-> "cash",
   payment_status |-> "paid", notes |-> ""]

EmptyCategoryForm ==
  [name |-> "", description |-> "", display_order |-> 0, is_active |-> TRUE]

EmptyItemForm ==
  [category_id |-> NoCategory, name |-> "", description |-> "", price |-> 0,
   is_available |-> TRUE, is_active |-> TRUE, display_order |-> 0]

\* ------------------------------------------------------------ data store
\* select('*').order('created_at', {ascending: false}): ids are handed out
\* in creation order
SelectBills(rows) == SortedBy(rows, [r \in rows |-> 0 - r.id])

\* select('*').eq('is_active', true).eq('is_available', true).order('name')
SelectAvailableItems(rows) ==
  LET S == {r \in rows : r.is_active /\ r.is_available}
  IN SortedBy(S, [r \in S |-> NameRank(r.name) * 100 + r.id])

\* select('*').order('display_order')
SelectByDisplayOrder(rows) ==
  SortedBy(rows, [r \in rows |-> r.display_order * 100 + r.id])

RemoveTask(i) == RemoveAt(tasks, i)

\* the task loadData() starts: both selects issued, none answered
LoadTask == [kind |-> "loadData", res |-> <<Pending, Pending>>]

\* ======================================================== Billing screen
\* the draft row addItem appends and the rows updateItem / removeItem leave
NewRow(item) ==
  [menu_item_id |-> item.id, quantity |-> 1, unit_price |-> item.price]

FindItem(items, id) ==
  IF \E k \in 1..Len(items) : items[k].id = id
  THEN <<items[CHOOSE k \in 1..Len(items) :
                 items[k].id = id /\ \A j \in 1..(k - 1) : items[j].id # id]>>
  ELSE <<>>

\* calculateTotals with the tax rounded half-up to whole paise
Round2(x) == ((2 * x + Paisa) \div (2 * Paisa)) * Paisa

calculateTotalsRounded(items) ==
  LET subtotal == SeqSum([k \in 1..Len(items) |->
                            items[k].quantity * items[k].unit_price])
      taxAmount == Round2((subtotal * TaxPercent) \div 100)
  IN [subtotal |-> subtotal, taxAmount |-> taxAmount,
      total |-> subtotal + taxAmount]

calculateTotals(items) ==
  LET subtotal == SeqSum([k \in 1..Len(items) |->
                            items[k].quantity * items[k].unit_price])
      taxAmount == (subtotal * TaxPercent) \div 100
  IN [subtotal |-> subtotal, taxAmount |-> taxAmount,
      total |-> subtotal + taxAmount]

\* ---------------------------------------------------- generateBillNumber
\* Strings built by generateBillNumber are sequences of characters.  An
\* instant of the clock is [day, ms, tz]: whole days since 1970-01-01 UTC,
\* milliseconds into that day, and the offset of local time in minutes.
Digits == <<"0", "1", "2", "3", "4", "5", "6", "7", "8", "9">>

\* Number.prototype.toString / template interpolation of a number >= 0
RECURSIVE toString(_)
toString(n) ==
  IF n < 10 THEN <<Digits[n + 1]>>
  ELSE toString(n \div 10) \o <<Digits[(n % 10) + 1]>>

\* String.prototype.padStart(targetLength, padString), one-character pad
RECURSIVE padStart(_, _, _)
padStart(s, targetLength, padString) ==
  IF Len(s) >= targetLength THEN s
  ELSE padStart(<<padString>> \o s, targetLength, padString)

\* String.prototype.slice(-n)
SliceFromEnd(s, n) ==
  IF Len(s) <= n THEN s ELSE SubSeq(s, Len(s) - n + 1, Len(s))

MsPerDay == 86400000
Million == 1000000

\* date.getTime() as the pair <<t \div 10^6, t % 10^6>> of
\* t = day * 86400000 + ms, computed without forming t
getTime(now) ==
  LET low == (now.day % 5) * 400000 + now.ms
  IN <<now.day * 86 + 2 * (now.day \div 5) + low \div Million, low % Million>>

\* date.getTime().toString()
TimeString(now) ==
  LET t == getTime(now)
  IN IF t[1] = 0 THEN toString(t[2])
     ELSE toString(t[1]) \o padStart(toString(t[2]), 6, "0")

\* the local calendar day of the instant, in days since 1970-01-01
LocalDay(now) == now.day + (now.ms + now.tz * 60000) \div MsPerDay

\* <<year, month index 0..11>> of a day number (proleptic Gregorian)
YearMonth(z) ==
  LET s == z + 719468
      era == s \div 146097
      doe == s - era * 146097
      yoe == (doe - doe \div 1460 + doe \div 36524 - doe \div 146096) \div 365
      doy == doe - (365 * yoe + yoe \div 4 - yoe \div 100)
      mp == (5 * doy + 2) \div 153
      m == IF mp < 10 THEN mp + 3 ELSE mp - 9
  IN <<yoe + era * 400 + (IF m <= 2 THEN 1 ELSE 0), m - 1>>

getFullYear(now) == YearMonth(LocalDay(now))[1]
getMonth(now) == YearMonth(LocalDay(now))[2]

\* the bill number with the month left unpadded
generateBillNumberUnpadded(now) ==
  <<"B", "I", "L", "L", "-">> \o toString(getFullYear(now))
    \o toString(getMonth(now) + 1) \o <<"-">>
    \o SliceFromEnd(TimeString(now), 6)

generateBillNumber(now) ==
  LET timestamp == SliceFromEnd(TimeString(now), 6)
  IN <<"B", "I", "L", "L", "-">> \o toString(getFullYear(now))
       \o padStart(toString(getMonth(now) + 1), 2, "0") \o <<"-">>
       \o timestamp

\* a bills row whose total_amount leaves the tax out
BillPayloadTotalWithoutTax(items, form, billNumber) ==
  LET t == calculateTotals(items)
  IN [user_id |-> user.id,
      bill_number |-> billNumber,
      customer_name |-> form.customer_name,
      customer_phone |-> form.customer_phone,
      subtotal |-> t.subtotal,
      tax_amount |-> t.taxAmount,
      total_amount |-> t.subtotal,
      payment_status |-> form.payment_status,
      payment_method |-> form.payment_method,
      notes |-> form.notes]

\* the row object handleSubmit passes to from('bills').insert
BillPayload(items, form, billNumber) ==
  LET t == calculateTotals(items)
  IN [user_id |-> user.id,
      bill_number |-> billNumber,
      customer_name |-> form.customer_name,
      customer_phone |-> form.customer_phone,
      subtotal |-> t.subtotal,
      tax_amount |-> t.taxAmount,
      total_amount |-> t.total,
      payment_status |-> form.payment_status,
      payment_method |-> form.payment_method,
      notes |-> form.notes]

\* the rows handleSubmit passes to from('bill_items').insert
\* rows that all take the name of the first item of the menu list
BillItemRowsNamingFirst(items, menu, bill) ==
  [k \in 1..Len(items) |->
     [bill_id |-> bill.id,
      menu_item_id |-> items[k].menu_item_id,
      menu_item_name |-> IF menu = <<>> THEN "" ELSE menu[1].name,
      quantity |-> items[k].quantity,
      unit_price |-> items[k].unit_price,
      total |-> items[k].quantity * items[k].unit_price]]

BillItemRows(items, menu, bill) ==
  [k \in 1..Len(items) |->
     LET menuItem == FindItem(menu, items[k].menu_item_id)
     IN [bill_id |-> bill.id,
         menu_item_id |-> items[k].menu_item_id,
         menu_item_name |-> IF menuItem = <<>> THEN "" ELSE menuItem[1].name,
         quantity |-> items[k].quantity,
         unit_price |-> items[k].unit_price,
         total |-> items[k].quantity * items[k].unit_price]]

BillingIdle == screen = "billing" /\ ~loading

\* onClick of the page's Create Bill button
OpenModal ==
  /\ BillingIdle /\ ~showModal
  /\ showModal' = TRUE
  /\ ev' = Ev("OpenModal", 0, <<>>)
  /\ UNCHANGED <<screen, dbVars, loading, menuItems, bills, selectedItems,
                 formData, totals, menuVars, tasks, hist>>

\* onChange of a form field
SetFormData(field, value) ==
  /\ BillingIdle /\ showModal
  /\ formData[field] # value
  /\ formData' = [formData EXCEPT ![field] = value]
  /\ ev' = Ev("setFormData", field, <<>>)
  /\ UNCHANGED <<screen, dbVars, loading, menuItems, bills, showModal,
                 selectedItems, totals, menuVars, tasks, hist>>

\* an addItem that puts the new row in front of the draft
addItemAtFront ==
  /\ BillingIdle /\ showModal
  /\ IF Len(menuItems) = 0
     THEN /\ ev' = Ev("addItem", 0, <<"Please add menu items first">>)
          /\ UNCHANGED selectedItems
     ELSE /\ selectedItems' = <<NewRow(menuItems[1])>> \o selectedItems
          /\ ev' = Ev("addItem", 0, <<>>)
  /\ totals' = calculateTotals(selectedItems')
  /\ UNCHANGED <<screen, dbVars, loading, menuItems, bills, showModal, formData,
                 menuVars, tasks, hist>>

addItem ==
  /\ BillingIdle /\ showModal
  /\ IF Len(menuItems) = 0
     THEN /\ ev' = Ev("addItem", 0, <<"Please add menu items first">>)
          /\ UNCHANGED selectedItems
     ELSE /\ selectedItems' = Append(selectedItems, NewRow(menuItems[1]))
          /\ ev' = Ev("addItem", 0, <<>>)
  /\ totals' = calculateTotals(selectedItems')
  /\ UNCHANGED <<screen, dbVars, loading, menuItems, bills, showModal, formData,
                 menuVars, tasks, hist>>

removeItem(index) ==
  /\ BillingIdle /\ showModal
  /\ index \in 1..Len(selectedItems)
  /\ selectedItems' = RemoveAt(selectedItems, index)
  /\ totals' = calculateTotals(selectedItems')
  /\ ev' = Ev("removeItem", index, <<>>)
  /\ UNCHANGED <<screen, dbVars, loading, menuItems, bills, showModal, formData,
                 menuVars, tasks, hist>>

\* an update that puts the menu price back on every edit of the row
UpdatedItemsRelockingPrice(items, menu, index, field, value) ==
  IF field = "menu_item_id"
  THEN LET menuItem == FindItem(menu, value)
       IN IF menuItem # <<>>
          THEN [items EXCEPT ![index] =
                  [@ EXCEPT !.menu_item_id = value,
                            !.unit_price = menuItem[1].price]]
          ELSE items
  ELSE LET menuItem == FindItem(menu, items[index].menu_item_id)
           row == [items[index] EXCEPT ![field] = value]
       IN [items EXCEPT ![index] =
             IF field = "quantity" /\ menuItem # <<>>
             THEN [row EXCEPT !.unit_price = menuItem[1].price]
             ELSE row]

\* the value of selectedItems after updateItem(index, field, value)
UpdatedItems(items, menu, index, field, value) ==
  IF field = "menu_item_id"
  THEN LET menuItem == FindItem(menu, value)
       IN IF menuItem # <<>>
          THEN [items EXCEPT ![index] =
                  [@ EXCEPT !.menu_item_id = value,
                            !.unit_price = menuItem[1].price]]
          ELSE items
  ELSE [items EXCEPT ![index] = [@ EXCEPT ![field] = value]]

updateItem(index, field, value) ==
  /\ BillingIdle /\ showModal
  /\ index \in 1..Len(selectedItems)
  /\ selectedItems' = UpdatedItems(selectedItems, menuItems, index, field, value)
  /\ totals' = calculateTotals(selectedItems')
  /\ ev' = Ev("updateItem", <<index, field, value>>, <<>>)
  /\ UNCHANGED <<screen, dbVars, loading, menuItems, bills, showModal, formData,
                 menuVars, tasks, hist>>

\* a Cancel that drops the submissions still in flight
CancelModalAbortingSubmit ==
  /\ BillingIdle /\ showModal
  /\ showModal' = FALSE
  /\ formData' = EmptyFormData
  /\ selectedItems' = <<>>
  /\ totals' = calculateTotals(selectedItems')
  /\ tasks' = SelectSeq(tasks, LAMBDA t : t.kind # "handleSubmit")
  /\ ev' = Ev("CancelModal", 0, <<>>)
  /\ UNCHANGED <<screen, dbVars, loading, menuItems, bills, menuVars, hist>>

\* a Cancel that closes the form and keeps the draft
CancelModalKeepingDraft ==
  /\ BillingIdle /\ showModal
  /\ showModal' = FALSE
  /\ ev' = Ev("CancelModal", 0, <<>>)
  /\ UNCHANGED <<screen, dbVars, loading, menuItems, bills, selectedItems,
                 formData, totals, menuVars, tasks, hist>>

\* onClick of the form's Cancel button
CancelModal ==
  /\ BillingIdle /\ showModal
  /\ showModal' = FALSE
  /\ formData' = EmptyFormData
  /\ selectedItems' = <<>>
  /\ totals' = calculateTotals(selectedItems')
  /\ ev' = Ev("CancelModal", 0, <<>>)
  /\ UNCHANGED <<screen, dbVars, loading, menuItems, bills, menuVars, tasks,
                 hist>>

\* the task handleSubmit leaves awaiting the insert into bills
SubmitTask(items, form, menu, now) ==
  [kind |-> "handleSubmit", pc |-> "bill", selectedItems |-> items,
   formData |-> form, menuItems |-> menu, now |-> now,
   req |-> BillPayload(items, form, generateBillNumber(now)),
   res |-> Pending]

\* onSubmit without the check for an empty draft
handleSubmitUnguarded(now) ==
  /\ BillingIdle /\ showModal
  /\ ops' = ops + 1
  /\ tasks' = Append(tasks, SubmitTask(selectedItems, formData, menuItems,
                                      now))
  /\ ev' = Ev("handleSubmit", 0, <<>>)
  /\ UNCHANGED <<screen, dbVars, loading, menuItems, billingVars, menuVars,
                 submitted>>

\* onSubmit of the form, up to the first await
handleSubmit(now) ==
  /\ BillingIdle /\ showModal
  /\ IF Len(selectedItems) = 0
     THEN /\ ev' = Ev("handleSubmit", 0, <<"Please add at least one item">>)
          /\ UNCHANGED tasks
          /\ UNCHANGED ops
     ELSE /\ ops' = ops + 1
          /\ tasks' = Append(tasks, SubmitTask(selectedItems, formData, menuItems,
                                      now))
          /\ ev' = Ev("handleSubmit", 0, <<>>)
  /\ UNCHANGED <<screen, dbVars, loading, menuItems, billingVars, menuVars,
                 submitted>>

\* ------------------------------------------- data store: reads (both screens)
\* what the k-th select of loadData's Promise.all returns
SelectData(k) ==
  IF screen = "billing"
  THEN IF k = 1 THEN SelectBills(db_bills)
                ELSE SelectAvailableItems(db_menu_items)
  ELSE IF k = 1 THEN SelectByDisplayOrder(db_menu_categories)
                ELSE SelectByDisplayOrder(db_menu_items)

Rejected(t) == \E k \in 1..2 : t.res[k].st = "reject"
Settled(t) == Rejected(t) \/ \A k \in 1..2 : t.res[k].st # "pending"

\* the data store answers the k-th select of the loadData task i
BackendSelect(i, k, outcome) ==
  /\ i \in 1..Len(tasks) /\ tasks[i].kind = "loadData"
  /\ ~Rejected(tasks[i])
  /\ tasks[i].res[k].st = "pending"
  /\ tasks' = [tasks EXCEPT ![i].res[k] =
                 Result(outcome, IF outcome = "ok" THEN SelectData(k) ELSE <<>>)]
  /\ ev' = Ev("backend", "select", <<>>)
  /\ UNCHANGED <<screen, dbVars, loading, menuItems, billingVars, menuVars,
                 hist>>

\* ------------------------------------------------------- Billing: loadData
\* Billing loadData after the await: both results or the first rejection
BillingLoadDataResume(i) ==
  /\ screen = "billing"
  /\ i \in 1..Len(tasks) /\ tasks[i].kind = "loadData"
  /\ Settled(tasks[i])
  /\ IF \A k \in 1..2 : tasks[i].res[k].st = "ok"
     THEN /\ bills' = tasks[i].res[1].data
          /\ menuItems' = tasks[i].res[2].data
     ELSE UNCHANGED <<bills, menuItems>>
  /\ loading' = FALSE
  /\ tasks' = RemoveTask(i)
  /\ ev' = Ev("loadData", 0, <<>>)
  /\ UNCHANGED <<screen, dbVars, showModal, selectedItems, formData, totals,
                 menuVars, hist>>

\* --------------------------------------------------- Billing: handleSubmit
BillRow(id, p) ==
  [id |-> id, user_id |-> p.user_id, bill_number |-> p.bill_number, customer_name |-> p.customer_name,
   customer_phone |-> p.customer_phone, subtotal |-> p.subtotal,
   tax_amount |-> p.tax_amount, total_amount |-> p.total_amount,
   payment_status |-> p.payment_status, payment_method |-> p.payment_method,
   notes |-> p.notes]

BillItemRow(k, p) ==
  [id |-> <<p.bill_id, k>>, bill_id |-> p.bill_id,
   menu_item_id |-> p.menu_item_id, menu_item_name |-> p.menu_item_name,
   quantity |-> p.quantity, unit_price |-> p.unit_price, total |-> p.total]

\* the data store answers from('bills').insert(...).select().single()
BackendInsertBill(i, outcome) ==
  /\ i \in 1..Len(tasks) /\ tasks[i].kind = "handleSubmit"
  /\ tasks[i].pc = "bill" /\ tasks[i].res.st = "pending"
  /\ LET row == BillRow(Cardinality(db_bills) + 1, tasks[i].req)
     IN IF outcome = "ok"
        THEN /\ db_bills' = db_bills \cup {row}
             /\ submitted' = Append(submitted, tasks[i].selectedItems)
             /\ tasks' = [tasks EXCEPT ![i].res = Result("ok", row)]
        ELSE /\ tasks' = [tasks EXCEPT ![i].res = Result(outcome, <<>>)]
             /\ UNCHANGED <<db_bills, submitted>>
  /\ ev' = Ev("backend", "insert bills", <<>>)
  /\ UNCHANGED <<screen, db_menu_categories, db_menu_items, db_bill_items,
                 db_seq, loading, menuItems, billingVars, menuVars, ops>>

\* a continuation that closes the form as soon as the bill row is written
HandleSubmitAfterBillClosingForm(i) ==
  /\ i \in 1..Len(tasks) /\ tasks[i].kind = "handleSubmit"
  /\ tasks[i].pc = "bill" /\ tasks[i].res.st # "pending"
  /\ IF tasks[i].res.st = "ok"
     THEN /\ tasks' = [tasks EXCEPT ![i] =
                 [@ EXCEPT !.pc = "items",
                           !.req = BillItemRows(tasks[i].selectedItems,
                                                tasks[i].menuItems,
                                                tasks[i].res.data),
                           !.res = Pending]]
          /\ showModal' = FALSE
          /\ ev' = Ev("handleSubmit:bill", 0, <<>>)
     ELSE /\ tasks' = RemoveTask(i)
          /\ UNCHANGED showModal
          /\ ev' = Ev("handleSubmit:bill", 0, <<"Error creating bill">>)
  /\ UNCHANGED <<screen, dbVars, loading, menuItems, bills, selectedItems,
                 formData, totals, menuVars, hist>>

\* a continuation that builds the bill items from the draft of the moment
HandleSubmitAfterBillFromLiveDraft(i) ==
  /\ i \in 1..Len(tasks) /\ tasks[i].kind = "handleSubmit"
  /\ tasks[i].pc = "bill" /\ tasks[i].res.st # "pending"
  /\ IF tasks[i].res.st = "ok"
     THEN /\ tasks' = [tasks EXCEPT ![i] =
                 [@ EXCEPT !.pc = "items",
                           !.req = BillItemRows(selectedItems, menuItems,
                                                tasks[i].res.data),
                           !.res = Pending]]
          /\ ev' = Ev("handleSubmit:bill", 0, <<>>)
     ELSE /\ tasks' = RemoveTask(i)
          /\ ev' = Ev("handleSubmit:bill", 0, <<"Error creating bill">>)
  /\ UNCHANGED <<screen, dbVars, loading, menuItems, billingVars, menuVars,
                 hist>>

\* handleSubmit after the await of the bills insert
HandleSubmitAfterBill(i) ==
  /\ i \in 1..Len(tasks) /\ tasks[i].kind = "handleSubmit"
  /\ tasks[i].pc = "bill" /\ tasks[i].res.st # "pending"
  /\ IF tasks[i].res.st = "ok"
     THEN /\ tasks' = [tasks EXCEPT ![i] =
                 [@ EXCEPT !.pc = "items",
                           !.req = BillItemRows(tasks[i].selectedItems,
                                                tasks[i].menuItems,
                                                tasks[i].res.data),
                           !.res = Pending]]
          /\ ev' = Ev("handleSubmit:bill", 0, <<>>)
     ELSE /\ tasks' = RemoveTask(i)
          /\ ev' = Ev("handleSubmit:bill", 0, <<"Error creating bill">>)
  /\ UNCHANGED <<screen, dbVars, loading, menuItems, billingVars, menuVars,
                 hist>>

\* the data store answers from('bill_items').insert(billItems)
BackendInsertBillItems(i, outcome) ==
  /\ i \in 1..Len(tasks) /\ tasks[i].kind = "handleSubmit"
  /\ tasks[i].pc = "items" /\ tasks[i].res.st = "pending"
  /\ tasks' = [tasks EXCEPT ![i].res = Result(outcome, <<>>)]
  /\ IF outcome = "ok"
     THEN db_bill_items' = db_bill_items \cup
            {BillItemRow(k, tasks[i].req[k]) : k \in 1..Len(tasks[i].req)}
     ELSE UNCHANGED db_bill_items
  /\ ev' = Ev("backend", "insert bill_items", <<>>)
  /\ UNCHANGED <<screen, db_menu_categories, db_menu_items, db_bills, db_seq,
                 loading, menuItems, billingVars, menuVars, hist>>

\* a continuation that closes and resets the form on failure too
HandleSubmitAfterItemsClosingForm(i) ==
  /\ i \in 1..Len(tasks) /\ tasks[i].kind = "handleSubmit"
  /\ tasks[i].pc = "items" /\ tasks[i].res.st # "pending"
  /\ showModal' = FALSE
  /\ formData' = EmptyFormData
  /\ selectedItems' = <<>>
  /\ totals' = calculateTotals(selectedItems')
  /\ IF tasks[i].res.st = "ok"
     THEN /\ tasks' = Append(RemoveTask(i), LoadTask)
          /\ ev' = Ev("handleSubmit:items", tasks[i].req[1].bill_id,
                      <<"Bill created successfully!">>)
     ELSE /\ tasks' = RemoveTask(i)
          /\ ev' = Ev("handleSubmit:items", tasks[i].req[1].bill_id,
                      <<"Error creating bill">>)
  /\ UNCHANGED <<screen, dbVars, loading, menuItems, bills, menuVars, hist>>

\* handleSubmit after the await of the bill_items insert
HandleSubmitAfterItems(i) ==
  /\ i \in 1..Len(tasks) /\ tasks[i].kind = "handleSubmit"
  /\ tasks[i].pc = "items" /\ tasks[i].res.st # "pending"
  /\ IF tasks[i].res.st = "ok"
     THEN /\ showModal' = FALSE
          /\ formData' = EmptyFormData
          /\ selectedItems' = <<>>
          /\ totals' = calculateTotals(selectedItems')
          /\ tasks' = Append(RemoveTask(i), LoadTask)
          /\ ev' = Ev("handleSubmit:items", tasks[i].req[1].bill_id, <<"Bill created successfully!">>)
     ELSE /\ tasks' = RemoveTask(i)
          /\ ev' = Ev("handleSubmit:items", tasks[i].req[1].bill_id, <<"Error creating bill">>)
          /\ UNCHANGED <<showModal, formData, selectedItems, totals>>
  /\ UNCHANGED <<screen, dbVars, loading, menuItems, bills, menuVars, hist>>

\* =========================================================== Menu screen
MenuIdle == screen = "menu" /\ ~loading
NoForm == ~showCategoryForm /\ ~showItemForm

CategoryFormOf(c) ==
  [name |-> c.name, description |-> c.description,
   display_order |-> c.display_order, is_active |-> c.is_active]

ItemFormOf(m) ==
  [category_id |-> m.category_id, name |-> m.name,
   description |-> m.description, price |-> m.price,
   is_available |-> m.is_available, is_active |-> m.is_active,
   display_order |-> m.display_order]

\* the row update(form).eq('id', id) leaves, and the row insert([...]) creates
CategoryRow(id, f) ==
  [id |-> id, name |-> f.name, description |-> f.description,
   display_order |-> f.display_order, is_active |-> f.is_active]

ItemRow(id, f) ==
  [id |-> id, category_id |-> f.category_id, name |-> f.name,
   description |-> f.description, price |-> f.price,
   is_available |-> f.is_available, is_active |-> f.is_active,
   display_order |-> f.display_order]

\* a loadData that clears the lists when a fetch failed
MenuLoadDataResumeClearing(i) ==
  /\ screen = "menu"
  /\ i \in 1..Len(tasks) /\ tasks[i].kind = "loadData"
  /\ Settled(tasks[i])
  /\ IF \A k \in 1..2 : tasks[i].res[k].st = "ok"
     THEN /\ categories' = tasks[i].res[1].data
          /\ menuItems' = tasks[i].res[2].data
     ELSE /\ categories' = <<>>
          /\ menuItems' = <<>>
  /\ loading' = FALSE
  /\ tasks' = RemoveTask(i)
  /\ ev' = Ev("loadData", 0, <<>>)
  /\ UNCHANGED <<screen, dbVars, billingVars, showCategoryForm,
                 showItemForm, editingCategory, editingItem, expandedCategories,
                 categoryForm, itemForm, hist>>

\* Menu loadData after the await
MenuLoadDataResume(i) ==
  /\ screen = "menu"
  /\ i \in 1..Len(tasks) /\ tasks[i].kind = "loadData"
  /\ Settled(tasks[i])
  /\ IF Rejected(tasks[i])
     THEN UNCHANGED <<categories, menuItems>>
     ELSE /\ categories' = IF tasks[i].res[1].st = "ok"
                           THEN tasks[i].res[1].data ELSE categories
          /\ menuItems' = IF tasks[i].res[2].st = "ok"
                          THEN tasks[i].res[2].data ELSE menuItems
  /\ loading' = FALSE
  /\ tasks' = RemoveTask(i)
  /\ ev' = Ev("loadData", 0, <<>>)
  /\ UNCHANGED <<screen, dbVars, billingVars, showCategoryForm,
                 showItemForm, editingCategory, editingItem, expandedCategories,
                 categoryForm, itemForm, hist>>

\* a toggle that only ever expands
toggleCategoryExpandOnly(categoryId) ==
  /\ MenuIdle /\ NoForm
  /\ \E k \in 1..Len(categories) : categories[k].id = categoryId
  /\ expandedCategories' = expandedCategories \cup {categoryId}
  /\ ev' = Ev("toggleCategory", categoryId, <<>>)
  /\ UNCHANGED <<screen, dbVars, loading, menuItems, billingVars,
                 categories, showCategoryForm, showItemForm, editingCategory,
                 editingItem, categoryForm, itemForm, tasks, hist>>

toggleCategory(categoryId) ==
  /\ MenuIdle /\ NoForm
  /\ \E k \in 1..Len(categories) : categories[k].id = categoryId
  /\ expandedCategories' =
       IF categoryId \in expandedCategories
       THEN expandedCategories \ {categoryId}
       ELSE expandedCategories \cup {categoryId}
  /\ ev' = Ev("toggleCategory", categoryId, <<>>)
  /\ UNCHANGED <<screen, dbVars, loading, menuItems, billingVars,
                 categories, showCategoryForm, showItemForm, editingCategory,
                 editingItem, categoryForm, itemForm, tasks, hist>>

\* onClick of Add Category
OpenCategoryForm ==
  /\ MenuIdle /\ NoForm
  /\ showCategoryForm' = TRUE
  /\ ev' = Ev("OpenCategoryForm", 0, <<>>)
  /\ UNCHANGED <<screen, dbVars, loading, menuItems, billingVars,
                 categories, showItemForm, editingCategory, editingItem,
                 expandedCategories, categoryForm, itemForm, tasks, hist>>

\* onClick of Add Menu Item
OpenItemForm ==
  /\ MenuIdle /\ NoForm
  /\ showItemForm' = TRUE
  /\ ev' = Ev("OpenItemForm", 0, <<>>)
  /\ UNCHANGED <<screen, dbVars, loading, menuItems, billingVars,
                 categories, showCategoryForm, editingCategory, editingItem,
                 expandedCategories, categoryForm, itemForm, tasks, hist>>

editCategory(category) ==
  /\ MenuIdle /\ NoForm
  /\ category \in Range(categories)
  /\ editingCategory' = category
  /\ categoryForm' = CategoryFormOf(category)
  /\ showCategoryForm' = TRUE
  /\ ev' = Ev("editCategory", category.id, <<>>)
  /\ UNCHANGED <<screen, dbVars, loading, menuItems, billingVars,
                 categories, showItemForm, editingItem, expandedCategories,
                 itemForm, tasks, hist>>

\* an item's buttons are rendered inside its category's expanded card
ItemShown(item) ==
  /\ item \in Range(menuItems)
  /\ item.category_id \in expandedCategories
  /\ \E k \in 1..Len(categories) : categories[k].id = item.category_id

editItem(item) ==
  /\ MenuIdle /\ NoForm
  /\ ItemShown(item)
  /\ editingItem' = item
  /\ itemForm' = ItemFormOf(item)
  /\ showItemForm' = TRUE
  /\ ev' = Ev("editItem", item.id, <<>>)
  /\ UNCHANGED <<screen, dbVars, loading, menuItems, billingVars,
                 categories, showCategoryForm, editingCategory,
                 expandedCategories, categoryForm, tasks, hist>>

SetCategoryForm(field, value) ==
  /\ MenuIdle /\ showCategoryForm
  /\ categoryForm[field] # value
  /\ categoryForm' = [categoryForm EXCEPT ![field] = value]
  /\ ev' = Ev("setCategoryForm", field, <<>>)
  /\ UNCHANGED <<screen, dbVars, loading, menuItems, billingVars,
                 categories, showCategoryForm, showItemForm, editingCategory,
                 editingItem, expandedCategories, itemForm, tasks, hist>>

SetItemForm(field, value) ==
  /\ MenuIdle /\ showItemForm
  /\ itemForm[field] # value
  /\ itemForm' = [itemForm EXCEPT ![field] = value]
  /\ ev' = Ev("setItemForm", field, <<>>)
  /\ UNCHANGED <<screen, dbVars, loading, menuItems, billingVars,
                 categories, showCategoryForm, showItemForm, editingCategory,
                 editingItem, expandedCategories, categoryForm, tasks, hist>>

\* onClick of the category form's Cancel button
CancelCategoryForm ==
  /\ MenuIdle /\ showCategoryForm
  /\ showCategoryForm' = FALSE
  /\ editingCategory' = NoEntity
  /\ categoryForm' = EmptyCategoryForm
  /\ ev' = Ev("CancelCategoryForm", 0, <<>>)
  /\ UNCHANGED <<screen, dbVars, loading, menuItems, billingVars,
                 categories, showItemForm, editingItem, expandedCategories,
                 itemForm, tasks, hist>>

\* onClick of the item form's Cancel button
CancelItemForm ==
  /\ MenuIdle /\ showItemForm
  /\ showItemForm' = FALSE
  /\ editingItem' = NoEntity
  /\ itemForm' = EmptyItemForm
  /\ ev' = Ev("CancelItemForm", 0, <<>>)
  /\ UNCHANGED <<screen, dbVars, loading, menuItems, billingVars,
                 categories, showCategoryForm, editingCategory,
                 expandedCategories, categoryForm, tasks, hist>>

\* ------------------------------------------------ Menu: save and delete
\* a task awaiting supabase.auth.getUser(); form and editing are the values
\* of the render in which Save was clicked
SaveTask(kind, table, form, editing) ==
  [kind |-> kind, table |-> table, pc |-> "getUser", form |-> form,
   editing |-> editing, created_by |-> "", res |-> Pending]

DeleteTask(kind, table, id) ==
  [kind |-> kind, table |-> table, pc |-> "delete", id |-> id, res |-> Pending]

handleSaveCategory ==
  /\ MenuIdle /\ showCategoryForm
  /\ ops' = ops + 1
  /\ tasks' = Append(tasks, SaveTask("handleSaveCategory", "menu_categories",
                                     categoryForm, editingCategory))
  /\ ev' = Ev("handleSaveCategory", editingCategory.id, <<>>)
  /\ UNCHANGED <<screen, dbVars, loading, menuItems, billingVars, menuVars,
                 submitted>>

handleSaveItem ==
  /\ MenuIdle /\ showItemForm
  /\ ops' = ops + 1
  /\ tasks' = Append(tasks, SaveTask("handleSaveItem", "menu_items", itemForm,
                                     editingItem))
  /\ ev' = Ev("handleSaveItem", editingItem.id, <<>>)
  /\ UNCHANGED <<screen, dbVars, loading, menuItems, billingVars, menuVars,
                 submitted>>

\* supabase.auth.getUser() answers: "ok" a user, "error" {data: {user: null}}
BackendGetUser(i, outcome) ==
  /\ i \in 1..Len(tasks)
  /\ tasks[i].kind \in {"handleSaveCategory", "handleSaveItem"}
  /\ tasks[i].pc = "getUser" /\ tasks[i].res.st = "pending"
  /\ tasks' = [tasks EXCEPT ![i].res =
                 Result(outcome, IF outcome = "ok" THEN <<user>> ELSE <<>>)]
  /\ ev' = Ev("backend", "getUser", <<>>)
  /\ UNCHANGED <<screen, dbVars, loading, menuItems, billingVars, menuVars,
                 hist>>

FailedToSave(kind) ==
  IF kind = "handleSaveCategory" THEN "Failed to save category"
  ELSE "Failed to save menu item"

\* handleSaveCategory / handleSaveItem after the await of getUser
HandleSaveAfterGetUser(i) ==
  /\ i \in 1..Len(tasks)
  /\ tasks[i].kind \in {"handleSaveCategory", "handleSaveItem"}
  /\ tasks[i].pc = "getUser" /\ tasks[i].res.st # "pending"
  /\ IF tasks[i].res.st = "reject"
     THEN /\ tasks' = RemoveTask(i)
          /\ ev' = Ev(tasks[i].kind \o ":getUser", 0, <<FailedToSave(tasks[i].kind)>>)
     ELSE IF tasks[i].res.data = <<>>
     THEN /\ tasks' = RemoveTask(i)
          /\ ev' = Ev(tasks[i].kind \o ":getUser", 0, <<>>)
     ELSE /\ tasks' = [tasks EXCEPT ![i] =
                 [@ EXCEPT !.pc = "save",
                           !.created_by = tasks[i].res.data[1].id,
                           !.res = Pending]]
          /\ ev' = Ev(tasks[i].kind \o ":getUser", 0, <<>>)
  /\ UNCHANGED <<screen, dbVars, loading, menuItems, billingVars, menuVars,
                 hist>>

\* the table after update(form).eq('id', id): the columns of the form are
\* written, the others stay
Updated(rows, id, row) == {IF r.id = id THEN row @@ r ELSE r : r \in rows}

\* the table after insert([{...form, created_by}])
Inserted(rows, row, created_by) == rows \cup {row @@ [created_by |-> created_by]}

\* a data store that inserts a row for every save, edit or not
BackendSaveInsertingOnly(i, outcome) ==
  /\ i \in 1..Len(tasks)
  /\ tasks[i].kind \in {"handleSaveCategory", "handleSaveItem"}
  /\ tasks[i].pc = "save" /\ tasks[i].res.st = "pending"
  /\ tasks' = [tasks EXCEPT ![i].res = Result(outcome, <<>>)]
  /\ LET t == tasks[i]
         id == db_seq[t.table] + 1
     IN IF outcome # "ok"
        THEN UNCHANGED <<db_menu_categories, db_menu_items, db_seq>>
        ELSE /\ db_seq' = [db_seq EXCEPT ![t.table] = id]
             /\ IF t.kind = "handleSaveCategory"
                THEN /\ db_menu_categories' =
                          Inserted(db_menu_categories, CategoryRow(id, t.form),
                                   t.created_by)
                     /\ UNCHANGED db_menu_items
                ELSE /\ db_menu_items' =
                          Inserted(db_menu_items, ItemRow(id, t.form),
                                   t.created_by)
                     /\ UNCHANGED db_menu_categories
  /\ ev' = Ev("backend", "save", <<>>)
  /\ UNCHANGED <<screen, db_bills, db_bill_items, loading, menuItems,
                 billingVars, menuVars, hist>>

\* the data store answers the update or insert of a save task
BackendSave(i, outcome) ==
  /\ i \in 1..Len(tasks)
  /\ tasks[i].kind \in {"handleSaveCategory", "handleSaveItem"}
  /\ tasks[i].pc = "save" /\ tasks[i].res.st = "pending"
  /\ tasks' = [tasks EXCEPT ![i].res = Result(outcome, <<>>)]
  /\ LET t == tasks[i]
         id == IF t.editing.id # 0 THEN t.editing.id ELSE db_seq[t.table] + 1
     IN IF outcome # "ok"
        THEN UNCHANGED <<db_menu_categories, db_menu_items, db_seq>>
        ELSE /\ db_seq' = IF t.editing.id # 0 THEN db_seq
                          ELSE [db_seq EXCEPT ![t.table] = id]
             /\ IF t.kind = "handleSaveCategory"
                THEN /\ db_menu_categories' =
                          IF t.editing.id # 0
                          THEN Updated(db_menu_categories, id, CategoryRow(id, t.form))
                          ELSE Inserted(db_menu_categories,
                                        CategoryRow(id, t.form), t.created_by)
                     /\ UNCHANGED db_menu_items
                ELSE /\ db_menu_items' =
                          IF t.editing.id # 0
                          THEN Updated(db_menu_items, id, ItemRow(id, t.form))
                          ELSE Inserted(db_menu_items, ItemRow(id, t.form),
                                        t.created_by)
                     /\ UNCHANGED db_menu_categories
  /\ ev' = Ev("backend", "save", <<>>)
  /\ UNCHANGED <<screen, db_bills, db_bill_items, loading, menuItems,
                 billingVars, menuVars, hist>>

\* a save continuation that closes the form and starts no reload
HandleSaveAfterSaveWithoutReload(i) ==
  /\ i \in 1..Len(tasks)
  /\ tasks[i].kind \in {"handleSaveCategory", "handleSaveItem"}
  /\ tasks[i].pc = "save" /\ tasks[i].res.st # "pending"
  /\ tasks' = RemoveTask(i)
  /\ IF tasks[i].res.st = "reject"
     THEN /\ ev' = Ev(tasks[i].kind \o ":save", 0, <<FailedToSave(tasks[i].kind)>>)
          /\ UNCHANGED <<showCategoryForm, editingCategory, categoryForm,
                         showItemForm, editingItem, itemForm>>
     ELSE /\ ev' = Ev(tasks[i].kind \o ":save", 0, <<>>)
          /\ IF tasks[i].kind = "handleSaveCategory"
             THEN /\ showCategoryForm' = FALSE
                  /\ editingCategory' = NoEntity
                  /\ categoryForm' = EmptyCategoryForm
                  /\ UNCHANGED <<showItemForm, editingItem, itemForm>>
             ELSE /\ showItemForm' = FALSE
                  /\ editingItem' = NoEntity
                  /\ itemForm' = EmptyItemForm
                  /\ UNCHANGED <<showCategoryForm, editingCategory, categoryForm>>
  /\ UNCHANGED <<screen, dbVars, loading, menuItems, billingVars, categories,
                 expandedCategories, hist>>

\* handleSaveCategory / handleSaveItem after the await of the update or insert
HandleSaveAfterSave(i) ==
  /\ i \in 1..Len(tasks)
  /\ tasks[i].kind \in {"handleSaveCategory", "handleSaveItem"}
  /\ tasks[i].pc = "save" /\ tasks[i].res.st # "pending"
  /\ IF tasks[i].res.st = "reject"
     THEN /\ tasks' = RemoveTask(i)
          /\ ev' = Ev(tasks[i].kind \o ":save", 0, <<FailedToSave(tasks[i].kind)>>)
          /\ UNCHANGED <<showCategoryForm, editingCategory, categoryForm,
                         showItemForm, editingItem, itemForm>>
     ELSE /\ tasks' = Append(RemoveTask(i), LoadTask)
          /\ ev' = Ev(tasks[i].kind \o ":save", 0, <<>>)
          /\ IF tasks[i].kind = "handleSaveCategory"
             THEN /\ showCategoryForm' = FALSE
                  /\ editingCategory' = NoEntity
                  /\ categoryForm' = EmptyCategoryForm
                  /\ UNCHANGED <<showItemForm, editingItem, itemForm>>
             ELSE /\ showItemForm' = FALSE
                  /\ editingItem' = NoEntity
                  /\ itemForm' = EmptyItemForm
                  /\ UNCHANGED <<showCategoryForm, editingCategory, categoryForm>>
  /\ UNCHANGED <<screen, dbVars, loading, menuItems, billingVars, categories,
                 expandedCategories, hist>>

\* a handler that deletes whatever the confirm() prompt returned
handleDeleteCategoryUnconfirmed(id, confirm) ==
  /\ MenuIdle /\ NoForm
  /\ \E k \in 1..Len(categories) : categories[k].id = id
  /\ ops' = ops + 1
  /\ tasks' = Append(tasks, DeleteTask("handleDeleteCategory",
                                       "menu_categories", id))
  /\ ev' = Ev("handleDeleteCategory", <<id, confirm>>, <<>>)
  /\ UNCHANGED <<screen, dbVars, loading, menuItems, billingVars, menuVars,
                 submitted>>

\* the confirm() prompt, then up to the await of the delete
handleDeleteCategory(id, confirm) ==
  /\ MenuIdle /\ NoForm
  /\ \E k \in 1..Len(categories) : categories[k].id = id
  /\ IF confirm
     THEN /\ ops' = ops + 1
          /\ tasks' = Append(tasks, DeleteTask("handleDeleteCategory",
                                               "menu_categories", id))
     ELSE UNCHANGED <<tasks, ops>>
  /\ ev' = Ev("handleDeleteCategory", <<id, confirm>>, <<>>)
  /\ UNCHANGED <<screen, dbVars, loading, menuItems, billingVars, menuVars,
                 submitted>>

handleDeleteItem(id, confirm) ==
  /\ MenuIdle /\ NoForm
  /\ \E k \in 1..Len(menuItems) : menuItems[k].id = id /\ ItemShown(menuItems[k])
  /\ IF confirm
     THEN /\ ops' = ops + 1
          /\ tasks' = Append(tasks, DeleteTask("handleDeleteItem",
                                               "menu_items", id))
     ELSE UNCHANGED <<tasks, ops>>
  /\ ev' = Ev("handleDeleteItem", <<id, confirm>>, <<>>)
  /\ UNCHANGED <<screen, dbVars, loading, menuItems, billingVars, menuVars,
                 submitted>>

\* a delete of a category that takes the items of the category with it
BackendDeleteCascadingToItems(i, outcome) ==
  /\ i \in 1..Len(tasks)
  /\ tasks[i].kind \in {"handleDeleteCategory", "handleDeleteItem"}
  /\ tasks[i].res.st = "pending"
  /\ tasks' = [tasks EXCEPT ![i].res = Result(outcome, <<>>)]
  /\ IF outcome # "ok"
     THEN UNCHANGED <<db_menu_categories, db_menu_items>>
     ELSE IF tasks[i].table = "menu_categories"
     THEN /\ db_menu_categories' = {r \in db_menu_categories : r.id # tasks[i].id}
          /\ db_menu_items' = {r \in db_menu_items : r.category_id # tasks[i].id}
     ELSE /\ db_menu_items' = {r \in db_menu_items : r.id # tasks[i].id}
          /\ UNCHANGED db_menu_categories
  /\ ev' = Ev("backend", "delete", <<>>)
  /\ UNCHANGED <<screen, db_bills, db_bill_items, db_seq, loading, menuItems,
                 billingVars, menuVars, hist>>

\* a delete of a menu item that takes the bill lines of the item with it
BackendDeleteCascadingToBillItems(i, outcome) ==
  /\ i \in 1..Len(tasks)
  /\ tasks[i].kind \in {"handleDeleteCategory", "handleDeleteItem"}
  /\ tasks[i].res.st = "pending"
  /\ tasks' = [tasks EXCEPT ![i].res = Result(outcome, <<>>)]
  /\ IF outcome # "ok"
     THEN UNCHANGED <<db_menu_categories, db_menu_items, db_bill_items>>
     ELSE IF tasks[i].table = "menu_categories"
     THEN /\ db_menu_categories' = {r \in db_menu_categories : r.id # tasks[i].id}
          /\ UNCHANGED <<db_menu_items, db_bill_items>>
     ELSE /\ db_menu_items' = {r \in db_menu_items : r.id # tasks[i].id}
          /\ db_bill_items' = {r \in db_bill_items : r.menu_item_id # tasks[i].id}
          /\ UNCHANGED db_menu_categories
  /\ ev' = Ev("backend", "delete", <<>>)
  /\ UNCHANGED <<screen, db_bills, db_seq, loading, menuItems, billingVars,
                 menuVars, hist>>

\* the data store answers from(table).delete().eq('id', id)
BackendDelete(i, outcome) ==
  /\ i \in 1..Len(tasks)
  /\ tasks[i].kind \in {"handleDeleteCategory", "handleDeleteItem"}
  /\ tasks[i].res.st = "pending"
  /\ tasks' = [tasks EXCEPT ![i].res = Result(outcome, <<>>)]
  /\ IF outcome # "ok"
     THEN UNCHANGED <<db_menu_categories, db_menu_items>>
     ELSE IF tasks[i].table = "menu_categories"
     THEN /\ db_menu_categories' = {r \in db_menu_categories : r.id # tasks[i].id}
          /\ UNCHANGED db_menu_items
     ELSE /\ db_menu_items' = {r \in db_menu_items : r.id # tasks[i].id}
          /\ UNCHANGED db_menu_categories
  /\ ev' = Ev("backend", "delete", <<>>)
  /\ UNCHANGED <<screen, db_bills, db_bill_items, db_seq, loading, menuItems,
                 billingVars, menuVars, hist>>

FailedToDelete(kind) ==
  IF kind = "handleDeleteCategory" THEN "Failed to delete category"
  ELSE "Failed to delete item"

\* handleDeleteCategory / handleDeleteItem after the await of the delete
HandleDeleteAfterDelete(i) ==
  /\ i \in 1..Len(tasks)
  /\ tasks[i].kind \in {"handleDeleteCategory", "handleDeleteItem"}
  /\ tasks[i].res.st # "pending"
  /\ IF tasks[i].res.st = "reject"
     THEN /\ tasks' = RemoveTask(i)
          /\ ev' = Ev(tasks[i].kind \o ":delete", 0, <<FailedToDelete(tasks[i].kind)>>)
     ELSE /\ tasks' = Append(RemoveTask(i), LoadTask)
          /\ ev' = Ev(tasks[i].kind \o ":delete", 0, <<>>)
  /\ UNCHANGED <<screen, dbVars, loading, menuItems, billingVars, menuVars,
                 hist>>

\* ------------------------------------------------------------ initial state
Item(id, cat, name, price) ==
  [id |-> id, category_id |-> cat, name |-> name, description |-> "",
   price |-> price, is_available |-> TRUE, is_active |-> TRUE,
   display_order |-> 0, created_by |-> "u0"]

Category(id, name) ==
  [id |-> id, name |-> name, description |-> "", display_order |-> 0,
   is_active |-> TRUE, created_by |-> "u0"]

\* what an earlier session left in the data store: one category, its two
\* items and one bill of one Margherita
InitialCategories == {Category(1, "Pizza")}
InitialItems ==
  {Item(1, 1, "Margherita", Rupees(100)), Item(2, 1, "Garlic Bread", Rupees(50))}
InitialRows ==
  <<[menu_item_id |-> 1, quantity |-> 1, unit_price |-> Rupees(100)]>>
\* 2026-11-01 09:00:00.000 UTC, local time UTC+5:30
InitialInstant == [day |-> 20758, ms |-> 32400000, tz |-> 330]
InitialBill ==
  BillRow(1, BillPayload(InitialRows, EmptyFormData,
                         generateBillNumber(InitialInstant)))
InitialBillItems ==
  {BillItemRow(1, BillItemRows(InitialRows, SelectAvailableItems(InitialItems),
                               InitialBill)[1])}

\* the state of a screen as it mounts: useState defaults, loadData() started
Init ==
  /\ screen \in {"billing", "menu"}
  /\ db_menu_categories = InitialCategories
  /\ db_menu_items = InitialItems
  /\ db_bills = {InitialBill}
  /\ db_bill_items = InitialBillItems
  /\ db_seq = [menu_categories |-> 1, menu_items |-> 2]
  /\ loading = TRUE
  /\ menuItems = <<>>
  /\ bills = <<>>
  /\ showModal = FALSE
  /\ selectedItems = <<>>
  /\ formData = EmptyFormData
  /\ totals = calculateTotals(<<>>)
  /\ categories = <<>>
  /\ showCategoryForm = FALSE
  /\ showItemForm = FALSE
  /\ editingCategory = NoEntity
  /\ editingItem = NoEntity
  /\ expandedCategories = {}
  /\ categoryForm = EmptyCategoryForm
  /\ itemForm = EmptyItemForm
  /\ tasks = <<LoadTask>>
  /\ ev = Ev("mount", 0, <<>>)
  /\ ops = 0
  /\ submitted = <<InitialRows>>

\* ------------------------------------------------------ the data store's steps
BackendBilling(outcomes) ==
  \E i \in 1..Len(tasks), o \in outcomes :
    \/ \E k \in 1..2 : screen = "billing" /\ BackendSelect(i, k, o)
    \/ BackendInsertBill(i, o)
    \/ BackendInsertBillItems(i, o)

BackendMenu(outcomes) ==
  \E i \in 1..Len(tasks), o \in outcomes :
    \/ \E k \in 1..2 : screen = "menu" /\ BackendSelect(i, k, o)
    \/ BackendGetUser(i, o)
    \/ BackendSave(i, o)
    \/ BackendDelete(i, o)

ResumeBilling ==
  \E i \in 1..Len(tasks) :
    \/ BillingLoadDataResume(i)
    \/ HandleSubmitAfterBill(i)
    \/ HandleSubmitAfterItems(i)

ResumeMenu ==
  \E i \in 1..Len(tasks) :
    \/ MenuLoadDataResume(i)
    \/ HandleSaveAfterGetUser(i)
    \/ HandleSaveAfterSave(i)
    \/ HandleDeleteAfterDelete(i)

\* ------------------------------------------------------------------- Spec
\* both screens, every handler, every outcome of every request
\* the instant the clock shows when Create Bill is submitted:
\* 2026-11-03 10:20:30.123 UTC, local time UTC+5:30
SubmitInstants == {[day |-> 20760, ms |-> 37230123, tz |-> 330]}

BillingNext ==
  \/ OpenModal
  \/ \E v \in CustomerNames : SetFormData("customer_name", v)
  \/ Len(selectedItems) < MaxRows /\ addItem
  \/ \E k \in 1..MaxRows : removeItem(k)
  \/ \E k \in 1..MaxRows :
       \/ \E v \in Quantities : updateItem(k, "quantity", v)
       \/ \E v \in OverridePrices : updateItem(k, "unit_price", v)
  \/ CancelModal
  \/ \E now \in SubmitInstants :
       (Len(selectedItems) = 0 \/ ops < MaxOps) /\ handleSubmit(now)
  \/ BackendBilling(Outcomes)
  \/ ResumeBilling

MenuNext ==
  \/ \E c \in Range(categories) : toggleCategory(c.id)
  \/ OpenCategoryForm
  \/ OpenItemForm
  \/ \E c \in Range(categories) : editCategory(c)
  \/ \E m \in Range(menuItems) : editItem(m)
  \/ \E v \in CategoryNames : SetCategoryForm("name", v)
  \/ \E v \in ItemPrices : SetItemForm("price", v)
  \/ CancelCategoryForm
  \/ CancelItemForm
  \/ ops < MaxOps /\ handleSaveCategory
  \/ ops < MaxOps /\ handleSaveItem
  \/ \E c \in Range(categories), b \in BOOLEAN :
       (b => ops < MaxOps) /\ handleDeleteCategory(c.id, b)
  \/ \E m \in Range(menuItems), b \in BOOLEAN :
       (b => ops < MaxOps) /\ handleDeleteItem(m.id, b)
  \/ BackendMenu(Outcomes)
  \/ ResumeMenu

Next == BillingNext \/ MenuNext

Spec == Init /\ [][Next]_vars

\* -------------------------------------------------------------- SpecDraft
\* the Billing form alone, with the wide input domains: the screen has
\* loaded (with the menu, or with nothing when the fetch failed)
InitDraft ==
  /\ screen = "billing"
  /\ db_menu_categories = InitialCategories
  /\ db_menu_items = InitialItems
  /\ db_bills = {InitialBill}
  /\ db_bill_items = InitialBillItems
  /\ db_seq = [menu_categories |-> 1, menu_items |-> 2]
  /\ loading = FALSE
  /\ \/ /\ menuItems = SelectAvailableItems(InitialItems)
        /\ bills = SelectBills({InitialBill})
     \/ /\ menuItems = <<>>
        /\ bills = <<>>
  /\ showModal = FALSE
  /\ selectedItems = <<>>
  /\ formData = EmptyFormData
  /\ totals = calculateTotals(<<>>)
  /\ categories = <<>>
  /\ showCategoryForm = FALSE
  /\ showItemForm = FALSE
  /\ editingCategory = NoEntity
  /\ editingItem = NoEntity
  /\ expandedCategories = {}
  /\ categoryForm = EmptyCategoryForm
  /\ itemForm = EmptyItemForm
  /\ tasks = <<>>
  /\ ev = Ev("loadData", 0, <<>>)
  /\ ops = 0
  /\ submitted = <<InitialRows>>

DraftNext ==
  \/ OpenModal
  \/ \E v \in CustomerNames : SetFormData("customer_name", v)
  \/ \E v \in PaymentStatuses : SetFormData("payment_status", v)
  \/ Len(selectedItems) < MaxDraftRows /\ addItem
  \/ \E k \in 1..MaxDraftRows : removeItem(k)
  \/ \E k \in 1..MaxDraftRows :
       \/ \E v \in DraftQuantities : updateItem(k, "quantity", v)
       \/ \E v \in DraftPrices : updateItem(k, "unit_price", v)
       \/ \E v \in DraftItemIds : updateItem(k, "menu_item_id", v)
  \/ CancelModal
  \/ \E now \in SubmitInstants :
       Len(selectedItems) = 0 /\ handleSubmit(now)

SpecDraft == InitDraft /\ [][DraftNext]_vars

\* --------------------------------------------------------------- SpecRace
\* two mutations in quick succession with every request answered "ok"
RaceNext ==
  \/ OpenModal
  \/ Len(selectedItems) < 1 /\ addItem
  \/ \E now \in SubmitInstants :
       Len(selectedItems) > 0 /\ ops < MaxRaceOps /\ handleSubmit(now)
  \/ BackendBilling({"ok"})
  \/ ResumeBilling
  \/ OpenCategoryForm
  \/ ops < MaxRaceOps /\ handleSaveCategory
  \/ \E c \in Range(categories) :
       ops < MaxRaceOps /\ handleDeleteCategory(c.id, TRUE)
  \/ BackendMenu({"ok"})
  \/ ResumeMenu

SpecRace == Init /\ [][RaceNext]_vars

\* ================================================================ claims
\* the sum of quantity x unit_price over draft rows, row by row
RECURSIVE RowSum(_)
RowSum(rows) ==
  IF rows = <<>> THEN 0
  ELSE Head(rows).quantity * Head(rows).unit_price + RowSum(Tail(rows))

ExampleRows ==
  {[menu_item_id |-> m, quantity |-> 2, unit_price |-> Rupees(100)] :
     m \in DraftItemIds}
  \X {[menu_item_id |-> m, quantity |-> 1, unit_price |-> Rupees(50)] :
        m \in DraftItemIds}

\* C1 as stated: for every draft, subtotal is the sum of quantity x
\* unit_price over the rows, tax is subtotal x 0.05 rounded to 2 decimal
\* places, and total is subtotal + tax.
C1_TaxRoundedToTwoDecimals ==
  /\ totals.subtotal = RowSum(selectedItems)
  /\ totals.taxAmount = Round2((totals.subtotal * TaxPercent) \div 100)
  /\ totals.total = totals.subtotal + totals.taxAmount

\* C1 amended: for every draft, subtotal is the sum of quantity x unit_price
\* over the rows, tax is exactly subtotal x 0.05 with no rounding applied,
\* and total is subtotal + tax; rows (2, 100.00) and (1, 50.00) give
\* 250.00, 12.50 and 262.50.
C1_TaxIsFivePercentUnrounded ==
  /\ totals.subtotal = RowSum(selectedItems)
  /\ totals.taxAmount * 100 = totals.subtotal * TaxPercent
  /\ totals.total = totals.subtotal + totals.taxAmount
  /\ (Len(selectedItems) = 2
      /\ <<selectedItems[1], selectedItems[2]>> \in ExampleRows)
       => totals = [subtotal |-> Rupees(250), taxAmount |-> 1250 * Paisa,
                    total |-> 26250 * Paisa]

\* C1 witness: the draft holds the rows (2, 100.00) and (1, 50.00) and the
\* totals shown are 250.00 / 12.50 / 262.50
C1_ExampleDraft ==
  /\ Len(selectedItems) = 2
  /\ <<selectedItems[1], selectedItems[2]>> \in ExampleRows
  /\ totals.subtotal = Rupees(250)
  /\ totals.taxAmount = 1250 * Paisa
  /\ totals.total = 26250 * Paisa

\* C2: every bill row in the data store has subtotal equal to the sum of
\* quantity x unit_price over the draft rows it was submitted with,
\* tax_amount equal to subtotal x 0.05, and total_amount equal to
\* subtotal + tax_amount.
C2_PersistedBillAmounts ==
  \A b \in db_bills :
    /\ b.id \in 1..Len(submitted)
    /\ b.subtotal = RowSum(submitted[b.id])
    /\ b.tax_amount * 100 = b.subtotal * TaxPercent
    /\ b.total_amount = b.subtotal + b.tax_amount

\* C2 witness: a bill persisted by handleSubmit from a two-row draft with an
\* overridden price, whose tax is not a whole number of paise
C2_BillPersistedFromDraft ==
  \E b \in db_bills :
    /\ b \notin {InitialBill}
    /\ Len(submitted[b.id]) = 2
    /\ \E k \in 1..2 : submitted[b.id][k].unit_price \in OverridePrices
    /\ b.tax_amount % Paisa # 0
    /\ b.total_amount = b.subtotal + b.tax_amount

\* C3: a submit of a draft with no rows issues no request and writes
\* nothing, shows the message 'Please add at least one item', and leaves the
\* form open with its fields and the draft unchanged.
C3_EmptySubmitRejected ==
  [][(ev'.op = "handleSubmit" /\ Len(selectedItems) = 0)
       => /\ ev'.alerts = <<"Please add at least one item">>
          /\ tasks' = tasks
          /\ UNCHANGED dbVars
          /\ showModal /\ showModal'
          /\ UNCHANGED <<formData, selectedItems, totals, bills, menuItems,
                         loading>>]_vars

\* C3 witness: an empty draft was submitted from a form with a customer name
\* typed in; the message is up, the form still open, no request in flight
C3_EmptySubmitShown ==
  /\ ev.op = "handleSubmit"
  /\ ev.alerts = <<"Please add at least one item">>
  /\ selectedItems = <<>>
  /\ showModal /\ formData.customer_name = "Asha"
  /\ tasks = <<>>

ItemsOf(billId) == {r \in db_bill_items : r.bill_id = billId}

\* C4: when the bill_items insert fails after the bills insert succeeded,
\* the bill row stays in the data store without items, nothing is written
\* or requested again, the one alert 'Error creating bill' is shown, and the
\* form and the draft are left as they were; the bill stays without items.
C4_OrphanedBillIsKept ==
  [][/\ \A i \in 1..Len(tasks) :
          (/\ tasks[i].kind = "handleSubmit" /\ tasks[i].pc = "items"
           /\ tasks[i].res.st \in {"error", "reject"}
           /\ ev'.op = "handleSubmit:items"
           /\ ev'.arg = tasks[i].req[1].bill_id)
            => /\ ev'.alerts = <<"Error creating bill">>
               /\ tasks' = RemoveTask(i)
               /\ UNCHANGED dbVars
               /\ UNCHANGED <<showModal, formData, selectedItems, totals>>
               /\ \E b \in db_bills' : b.id = ev'.arg
               /\ \A r \in db_bill_items' : r.bill_id # ev'.arg
     /\ \A b \in db_bills :
          (/\ ItemsOf(b.id) = {}
           /\ \A i \in 1..Len(tasks) : tasks[i].kind # "handleSubmit")
            => b \in db_bills' /\ ItemsOf(b.id)' = {}]_vars

\* C4 witness: the bill_items insert failed; the alert is up, the bill is
\* in the data store without items, the form is open with the draft in it
C4_OrphanedBill ==
  /\ ev.op = "handleSubmit:items"
  /\ ev.alerts = <<"Error creating bill">>
  /\ \E b \in db_bills : b.id = ev.arg /\ ItemsOf(b.id) = {}
  /\ showModal /\ Len(selectedItems) = 2
  /\ formData.customer_name = "Asha"
  /\ tasks = <<>>

\* C5 as stated: once every request started by a mutation and its reloads
\* has been answered and handled, the lists on screen equal what the data
\* store holds, whatever the order in which overlapping reloads came back.
C5_ListsEqualBackendAfterReloads ==
  (tasks = <<>> /\ ops > 0)
    => IF screen = "billing"
       THEN bills = SelectData(1) /\ menuItems = SelectData(2)
       ELSE categories = SelectData(1) /\ menuItems = SelectData(2)

GenericAlerts ==
  {"Error creating bill", "Failed to save category",
   "Failed to save menu item", "Failed to delete category",
   "Failed to delete item"}

\* this step is the rest of the handler of task i after its insert, update
\* or delete was answered with a failure
FailedMutationHandled(i) ==
  /\ tasks[i].kind # "loadData"
  /\ tasks[i].pc \in {"bill", "items", "save", "delete"}
  /\ tasks[i].res.st \in {"error", "reject"}
  /\ ev'.op = tasks[i].kind \o ":" \o tasks[i].pc
  /\ \A j \in 1..Len(tasks) :
       (j # i /\ tasks[j].kind = tasks[i].kind /\ tasks[j].pc = tasks[i].pc)
         => tasks[j].res.st = "pending"

\* C6 as stated: on either screen, when the data store reports a failure
\* for the insert, update or delete of a mutating action, the handler shows
\* exactly one generic alert and does not go on as after a success: it
\* starts no reload and leaves every form as it was.
C6_FailureAlertsOnce ==
  [][\A i \in 1..Len(tasks) :
       FailedMutationHandled(i)
         => /\ Len(ev'.alerts) = 1 /\ ev'.alerts[1] \in GenericAlerts
            /\ tasks' = RemoveTask(i)
            /\ UNCHANGED <<showModal, formData, selectedItems,
                           showCategoryForm, editingCategory, categoryForm,
                           showItemForm, editingItem, itemForm>>]_vars

\* a fetch of the load task i failed
LoadFailed(i) == \E k \in 1..2 : tasks[i].res[k].st \in {"error", "reject"}

FetchFailed(i, k) == tasks[i].res[k].st \in {"error", "reject"}

\* C7 as stated: after a loadData in which a fetch failed, on mount or as a
\* reload, the list fed by that fetch is empty, no alert is shown and no
\* request is issued again.
C7_FailedFetchEmptiesLists ==
  [][ev'.op = "loadData"
       => \E i \in 1..Len(tasks) :
            /\ tasks[i].kind = "loadData" /\ Settled(tasks[i])
            /\ tasks' = RemoveTask(i)
            /\ ev'.alerts = <<>>
            /\ FetchFailed(i, 1)
                 => IF screen = "billing" THEN bills' = <<>>
                    ELSE categories' = <<>>
            /\ FetchFailed(i, 2) => menuItems' = <<>>]_vars

\* C7 amended: after a loadData in which a fetch failed, on mount or as a
\* reload, no alert is shown, no request is issued again and nothing is
\* written; the list fed by the failed fetch keeps the value it had before
\* the call. On Billing both lists keep their value; on Menu the other list
\* is still replaced by its fetched rows unless a request was rejected.
C7_FailedFetchKeepsLists ==
  [][ev'.op = "loadData"
       => \E i \in 1..Len(tasks) :
            /\ tasks[i].kind = "loadData" /\ Settled(tasks[i])
            /\ tasks' = RemoveTask(i)
            /\ ev'.alerts = <<>>
            /\ UNCHANGED dbVars
            /\ ~loading'
            /\ LoadFailed(i)
                 => IF screen = "billing" \/ Rejected(tasks[i])
                    THEN UNCHANGED <<bills, categories, menuItems>>
                    ELSE /\ categories' = IF FetchFailed(i, 1) THEN categories
                                          ELSE tasks[i].res[1].data
                         /\ menuItems' = IF FetchFailed(i, 2) THEN menuItems
                                         ELSE tasks[i].res[2].data]_vars

\* C7 witness: the reload after a mutation failed and the Menu screen still
\* shows the categories of the load before, which are no longer those of
\* the data store
C7_StaleListsAfterFailedReload ==
  /\ screen = "menu" /\ ev.op = "loadData" /\ ops > 0 /\ tasks = <<>>
  /\ categories # <<>> /\ menuItems # <<>>
  /\ categories # SelectData(1)

\* C8: deleting a category requests one delete on menu_categories for that
\* id and none on menu_items; answering it leaves every menu item row as it
\* was and removes no other category; the Menu fetch of items returns every
\* item row and the reload puts them all in the list, so items of the
\* deleted category stay in both with their category_id.
C8_DeleteCategoryKeepsItems ==
  [][/\ (ev'.op = "handleDeleteCategory" /\ ev'.arg[2])
          => tasks' = Append(tasks, DeleteTask("handleDeleteCategory",
                                               "menu_categories", ev'.arg[1]))
     /\ ev'.op = "handleDeleteCategory:delete"
          => /\ UNCHANGED dbVars
             /\ \E i \in 1..Len(tasks) :
                  /\ tasks[i].kind = "handleDeleteCategory"
                  /\ tasks[i].res.st # "pending"
                  /\ tasks' \in {RemoveTask(i),
                                 Append(RemoveTask(i), LoadTask)}
     /\ \A i \in 1..Len(tasks) :
          /\ (/\ tasks[i].kind = "handleDeleteCategory"
              /\ tasks[i].res.st = "pending"
              /\ ev'.op = "backend" /\ tasks'[i].res.st # "pending")
               => /\ db_menu_items' = db_menu_items
                  /\ \A r \in db_menu_categories :
                       r.id # tasks[i].id => r \in db_menu_categories'
          /\ (/\ screen = "menu" /\ tasks[i].kind = "loadData"
              /\ tasks[i].res[2].st = "pending"
              /\ ev'.op = "backend" /\ tasks'[i].res[2].st = "ok")
               => Range(tasks'[i].res[2].data) = db_menu_items
          /\ (/\ screen = "menu" /\ tasks[i].kind = "loadData"
              /\ \A k \in 1..2 : tasks[i].res[k].st = "ok"
              /\ ev'.op = "loadData" /\ tasks' = RemoveTask(i))
               => menuItems' = tasks[i].res[2].data]_vars

\* C8 witness: category 1 was deleted and the lists reloaded; the items that
\* reference it are still in the data store and in the list
C8_ItemsOfDeletedCategory ==
  /\ screen = "menu" /\ tasks = <<>> /\ ev.op = "loadData"
  /\ \A c \in db_menu_categories : c.id # 1
  /\ categories = <<>>
  /\ Len(menuItems) = 2
  /\ \A k \in 1..2 : menuItems[k].category_id = 1
                     /\ menuItems[k] \in db_menu_items

\* C9: no step removes or changes a row of bills or bill_items; rows are
\* only added, under ids no row had before.
C9_BillsAppendOnly ==
  [][/\ db_bills \subseteq db_bills'
     /\ db_bill_items \subseteq db_bill_items'
     /\ \A b \in db_bills' \ db_bills : \A c \in db_bills : c.id # b.id
     /\ \A r \in db_bill_items' \ db_bill_items :
          \A q \in db_bill_items : q.id # r.id]_vars

\* C9 witness: on the Menu screen a menu item a bill line refers to was
\* deleted or given another price; the bill line is as it was written
C9_BillLineOutlivesMenuChange ==
  /\ screen = "menu" /\ tasks = <<>>
  /\ InitialBill \in db_bills
  /\ InitialBillItems \subseteq db_bill_items
  /\ \E r \in db_bill_items :
       \A m \in db_menu_items :
         m.id = r.menu_item_id => m.price # r.unit_price

DeleteHandlers == {"handleDeleteCategory", "handleDeleteItem"}

TableOf(kind) ==
  IF kind = "handleDeleteCategory" THEN "menu_categories" ELSE "menu_items"

RemovedIds(old, new) == {r.id : r \in old} \ {r.id : r \in new}

\* a pending delete by id on the table is answered with success in this step
DeleteAnswered(table, id) ==
  /\ ev'.op = "backend"
  /\ \E i \in 1..Len(tasks) :
       /\ tasks[i].kind \in DeleteHandlers
       /\ tasks[i].table = table /\ tasks[i].id = id
       /\ tasks[i].res.st = "pending" /\ tasks'[i].res.st = "ok"

LoadCount(ts) == Cardinality({j \in 1..Len(ts) : ts[j].kind = "loadData"})

ItemsInsertCount(ts) ==
  Cardinality({j \in 1..Len(ts) : ts[j].kind = "handleSubmit"
                                  /\ ts[j].pc = "items"})

\* C11: within a submission the bill_items insert is issued only by the
\* continuation of a bills insert that returned successfully, and with the
\* id of the row that insert returned; a failed bills insert ends the
\* submission with no bill_items insert; the form is closed and a reload
\* started only by the continuation of a bill_items insert that returned
\* successfully; no other Billing step writes bill_items, closes the form
\* after a submit, or starts a reload.
C11_SubmitStepsOrdered ==
  [][/\ ev'.op = "handleSubmit:bill"
          => /\ UNCHANGED <<dbVars, showModal, bills, LoadCount(tasks)>>
             /\ \E i \in 1..Len(tasks) :
                  /\ tasks[i].kind = "handleSubmit" /\ tasks[i].pc = "bill"
                  /\ tasks[i].res.st # "pending"
                  /\ IF tasks[i].res.st = "ok"
                     THEN /\ tasks[i].res.data \in db_bills
                          /\ Len(tasks') = Len(tasks)
                          /\ tasks'[i].pc = "items"
                          /\ tasks'[i].res = Pending
                          /\ \A k \in 1..Len(tasks'[i].req) :
                               tasks'[i].req[k].bill_id = tasks[i].res.data.id
                          /\ \A j \in 1..Len(tasks) :
                               j # i => tasks'[j] = tasks[j]
                     ELSE tasks' = RemoveTask(i)
     /\ ItemsInsertCount(tasks') > ItemsInsertCount(tasks)
          => ev'.op = "handleSubmit:bill"
     /\ db_bill_items' # db_bill_items
          => \E i \in 1..Len(tasks) :
               /\ tasks[i].kind = "handleSubmit" /\ tasks[i].pc = "items"
               /\ tasks[i].res.st = "pending" /\ tasks'[i].res.st = "ok"
               /\ \E b \in db_bills : b.id = tasks[i].req[1].bill_id
     /\ ev'.op = "handleSubmit:items"
          => \E i \in 1..Len(tasks) :
               /\ tasks[i].kind = "handleSubmit" /\ tasks[i].pc = "items"
               /\ tasks[i].res.st # "pending"
               /\ IF tasks[i].res.st = "ok"
                  THEN /\ ~showModal'
                       /\ tasks' = Append(RemoveTask(i), LoadTask)
                  ELSE /\ UNCHANGED showModal
                       /\ tasks' = RemoveTask(i)
     /\ (screen = "billing" /\ LoadCount(tasks') > LoadCount(tasks))
          => /\ ev'.op = "handleSubmit:items"
             /\ ev'.alerts = <<"Bill created successfully!">>
     /\ (screen = "billing" /\ showModal /\ ~showModal')
          => \/ ev'.op = "CancelModal"
             \/ /\ ev'.op = "handleSubmit:items"
                /\ ev'.alerts = <<"Bill created successfully!">>]_vars

\* C11 witness: a submission ran to its end: the bill and its lines are in
\* the data store, the form is closed and the reload is in flight
C11_SubmissionCompleted ==
  /\ ev.op = "handleSubmit:items"
  /\ ev.alerts = <<"Bill created successfully!">>
  /\ \E b \in db_bills : b.id = ev.arg /\ Cardinality(ItemsOf(b.id)) = 2
  /\ ~showModal /\ tasks = <<LoadTask>>

\* every form that is closed has its draft at the defaults
ClosedFormsAtDefaults ==
  /\ ~showModal => selectedItems = <<>> /\ formData = EmptyFormData
  /\ ~showCategoryForm
       => categoryForm = EmptyCategoryForm /\ editingCategory.id = 0
  /\ ~showItemForm => itemForm = EmptyItemForm /\ editingItem.id = 0

\* C12: in every reachable state a closed form has its draft at the
\* defaults (Billing: no rows, default fields; Menu: default form fields, no
\* entity being edited); a form opened through Create / Add is blank and in
\* create mode; and an open form is closed only by its Cancel button or by
\* the continuation of its save once the save has returned.
C12_ClosedFormHoldsNoDraft ==
  /\ []ClosedFormsAtDefaults
  /\ [][/\ ev'.op = "OpenModal"
             => showModal' /\ selectedItems' = <<>>
                /\ formData' = EmptyFormData
        /\ ev'.op = "OpenCategoryForm"
             => showCategoryForm' /\ categoryForm' = EmptyCategoryForm
                /\ editingCategory'.id = 0
        /\ ev'.op = "OpenItemForm"
             => showItemForm' /\ itemForm' = EmptyItemForm
                /\ editingItem'.id = 0
        /\ (showModal /\ ~showModal')
             => \/ ev'.op = "CancelModal"
                \/ /\ ev'.op = "handleSubmit:items"
                   /\ ev'.alerts = <<"Bill created successfully!">>
        /\ (showCategoryForm /\ ~showCategoryForm')
             => ev'.op \in {"CancelCategoryForm", "handleSaveCategory:save"}
                /\ ev'.alerts = <<>>
        /\ (showItemForm /\ ~showItemForm')
             => ev'.op \in {"CancelItemForm", "handleSaveItem:save"}
                /\ ev'.alerts = <<>>]_vars

\* C12 witness: Cancel was pressed on a Billing form whose draft had rows
\* and a customer name (a submit that captured them is still in flight);
\* the form is closed and the draft is back at the defaults
C12_CancelledDraftDiscarded ==
  /\ ev.op = "CancelModal" /\ ~showModal
  /\ selectedItems = <<>> /\ formData = EmptyFormData
  /\ \E i \in 1..Len(tasks) :
       /\ tasks[i].kind = "handleSubmit"
       /\ Len(tasks[i].selectedItems) = 2
       /\ tasks[i].formData.customer_name = "Asha"

SaveHandlers == {"handleSaveCategory", "handleSaveItem"}

ClockDays == {0, 1, 19722, 19782, 20760, 2932896, 2932897}
ClockMs == {0, 5, 99999, 100000, 37230123, MsPerDay - 1}
ClockOffsets == {-300, 0, 330}
ClockInstants ==
  {[day |-> d, ms |-> m, tz |-> z] : d \in ClockDays, m \in ClockMs,
                                     z \in ClockOffsets}

BillNumberNext ==
  \/ OpenModal
  \/ Len(selectedItems) < 1 /\ addItem
  \/ \E now \in ClockInstants :
       Len(selectedItems) > 0 /\ ops < 1 /\ handleSubmit(now)
  \/ BackendBilling({"ok"})
  \/ ResumeBilling

SpecBillNumber == InitDraft /\ [][BillNumberNext]_vars

IsDigit(c) == \E d \in 1..10 : Digits[d] = c

DigitValue(c) == (CHOOSE d \in 1..10 : Digits[d] = c) - 1

\* the number a sequence of decimal digits denotes
RECURSIVE DecimalValue(_)
DecimalValue(s) ==
  IF s = <<>> THEN 0
  ELSE DecimalValue(SubSeq(s, 1, Len(s) - 1)) * 10 + DigitValue(s[Len(s)])

\* s is BILL-, the four digits of the local year of the instant, the two
\* digits of its month, a dash, and six digits that are the last six digits
\* of its millisecond timestamp
WellFormedBillNumber(s, now) ==
  /\ Len(s) = 18
  /\ SubSeq(s, 1, 5) = <<"B", "I", "L", "L", "-">>
  /\ s[12] = "-"
  /\ \A k \in (6..11) \cup (13..18) : IsDigit(s[k])
  /\ DecimalValue(SubSeq(s, 6, 9)) = getFullYear(now)
  /\ DecimalValue(SubSeq(s, 10, 11)) = getMonth(now) + 1
  /\ DecimalValue(SubSeq(s, 13, 18)) = getTime(now)[2]

\* the instant has a timestamp of six digits or more and a local year of
\* four digits
SixDigitInstant(now) ==
  /\ getTime(now)[1] > 0 \/ getTime(now)[2] >= 100000
  /\ getFullYear(now) \in 1000..9999

\* C14 as stated: for any instant at which a bill is submitted, the bill
\* number generated is BILL-<4-digit year><2-digit month>-<6 digits>, the
\* six digits being the last six digits of the millisecond timestamp.
C14_BillNumberFormat ==
  \A i \in 1..Len(tasks) :
    (tasks[i].kind = "handleSubmit" /\ tasks[i].pc = "bill")
      => WellFormedBillNumber(tasks[i].req.bill_number, tasks[i].now)

\* C14 amended: for any instant whose millisecond timestamp has at least
\* six digits and whose local year has four digits, the bill number
\* generated is BILL-<4-digit year><2-digit month>-<6 digits>, with the year
\* and zero-padded month of the instant in local time and the last six
\* digits of the millisecond timestamp.
C14_BillNumberFormatOfSixDigitInstants ==
  \A i \in 1..Len(tasks) :
    (/\ tasks[i].kind = "handleSubmit" /\ tasks[i].pc = "bill"
     /\ SixDigitInstant(tasks[i].now))
      => WellFormedBillNumber(tasks[i].req.bill_number, tasks[i].now)

\* C14 witness: a bill submitted at 2026-11-03 10:20:30.123 UTC (timestamp
\* 1793701230123) was stored with the number BILL-202611-230123
C14_BillNumberOfKnownInstant ==
  /\ \E i \in 1..Len(tasks) :
       /\ tasks[i].kind = "handleSubmit"
       /\ tasks[i].now = [day |-> 20760, ms |-> 37230123, tz |-> 330]
  /\ \E b \in db_bills :
       /\ b.id = 2
       /\ b.bill_number = <<"B", "I", "L", "L", "-", "2", "0", "2", "6",
                            "1", "1", "-", "2", "3", "0", "1", "2", "3">>

DraftOps ==
  {"OpenModal", "setFormData", "addItem", "removeItem", "updateItem",
   "CancelModal"}

\* the draft row a bill_items row was written from
DraftRowOf(r) ==
  [menu_item_id |-> r.menu_item_id, quantity |-> r.quantity,
   unit_price |-> r.unit_price]

\* C15: once handleSubmit has issued the bills insert, the submission holds
\* the draft rows of that moment; no Cancel, edit, removal, addition or
\* reopening changes or removes a submission in flight; whatever the form
\* shows by then, the continuation of a successful bills insert is enabled
\* and issues the bill_items insert, and the rows that insert writes are the
\* rows the draft held at the submit.
C15_SubmitCannotBeAborted ==
  /\ [](\A i \in 1..Len(tasks) :
          (/\ tasks[i].kind = "handleSubmit" /\ tasks[i].pc = "bill"
           /\ tasks[i].res.st # "pending")
            => ENABLED HandleSubmitAfterBill(i))
  /\ [][/\ (ev'.op = "handleSubmit" /\ Len(selectedItems) > 0)
             => /\ Len(tasks') = Len(tasks) + 1
                /\ tasks'[Len(tasks')].kind = "handleSubmit"
                /\ tasks'[Len(tasks')].selectedItems = selectedItems
                /\ SubSeq(tasks', 1, Len(tasks)) = tasks
        /\ ev'.op \in DraftOps => tasks' = tasks
        /\ ev'.op = "handleSubmit:bill"
             => \E i \in 1..Len(tasks) :
                  /\ tasks[i].kind = "handleSubmit" /\ tasks[i].pc = "bill"
                  /\ tasks[i].res.st = "ok"
                       => /\ Len(tasks') = Len(tasks)
                          /\ tasks'[i].pc = "items"
                          /\ tasks'[i].selectedItems = tasks[i].selectedItems
                          /\ [k \in 1..Len(tasks'[i].req) |->
                                DraftRowOf(tasks'[i].req[k])]
                               = tasks[i].selectedItems
                  /\ tasks[i].res.st # "ok" => tasks' = RemoveTask(i)
        /\ db_bill_items' # db_bill_items
             => \E i \in 1..Len(tasks) :
                  /\ tasks[i].kind = "handleSubmit" /\ tasks[i].pc = "items"
                  /\ tasks[i].res.st = "pending"
                  /\ db_bill_items' \ db_bill_items =
                       {BillItemRow(k, tasks[i].req[k]) :
                          k \in 1..Len(tasks[i].req)}
                  /\ {DraftRowOf(r) : r \in db_bill_items' \ db_bill_items}
                       = Range(tasks[i].selectedItems)]_vars

\* C15 witness: Cancel was pressed while the submission was in flight (the
\* form is closed and the draft empty before the submission has finished),
\* and the two rows of the draft as submitted are in the data store
C15_WrittenAfterCancel ==
  /\ ~showModal /\ selectedItems = <<>>
  /\ \E i \in 1..Len(tasks) :
       /\ tasks[i].kind = "handleSubmit" /\ tasks[i].pc = "items"
       /\ tasks[i].res.st = "ok"
       /\ Len(tasks[i].selectedItems) = 2
       /\ {DraftRowOf(r) : r \in ItemsOf(tasks[i].req[1].bill_id)}
            = Range(tasks[i].selectedItems)

\* the set S with the membership of id flipped
Flip(S, id) == IF id \in S THEN S \ {id} ELSE S \cup {id}

\* C16: a toggleCategory(id) step flips the membership of id in the
\* expanded set, keeps the membership of every other id, changes no list,
\* no form and nothing in the data store, and issues no request; the set it
\* leaves, toggled for id once more, is the set it started from.
C16_ToggleIsLocalFlip ==
  [][ev'.op = "toggleCategory"
       => /\ (ev'.arg \in expandedCategories')
               <=> (ev'.arg \notin expandedCategories)
          /\ \A c \in (expandedCategories \cup expandedCategories') \ {ev'.arg} :
               c \in expandedCategories <=> c \in expandedCategories'
          /\ expandedCategories' = Flip(expandedCategories, ev'.arg)
          /\ Flip(expandedCategories', ev'.arg) = expandedCategories
          /\ tasks' = tasks
          /\ UNCHANGED <<dbVars, loading, categories, menuItems,
                         showCategoryForm, showItemForm, editingCategory,
                         editingItem, categoryForm, itemForm, billingVars>>]_vars

\* C16 witness: category 2 was expanded and collapsed again while category
\* 1 stayed expanded
C16_ToggledTwice ==
  /\ ev.op = "toggleCategory" /\ ev.arg = 2
  /\ expandedCategories = {1}
  /\ Len(categories) = 2 /\ tasks = <<>>

\* C17: an addItem step with a non-empty menu list appends one row to the
\* draft, with the id and price of the first menu item and quantity 1, and
\* keeps the rows before it as they were and in order; with an empty menu
\* list it shows the message 'Please add menu items first' and leaves the
\* draft as it was. Nothing else changes and no request is issued.
C17_AddItemAppendsDefaultRow ==
  [][ev'.op = "addItem"
       => /\ IF Len(menuItems) > 0
             THEN /\ Len(selectedItems') = Len(selectedItems) + 1
                  /\ SubSeq(selectedItems', 1, Len(selectedItems))
                       = selectedItems
                  /\ selectedItems'[Len(selectedItems')] =
                       [menu_item_id |-> menuItems[1].id, quantity |-> 1,
                        unit_price |-> menuItems[1].price]
                  /\ ev'.alerts = <<>>
             ELSE /\ selectedItems' = selectedItems
                  /\ ev'.alerts = <<"Please add menu items first">>
          /\ tasks' = tasks
          /\ UNCHANGED <<dbVars, menuItems, bills, showModal, formData>>]_vars

\* C17 witness: a row was added behind an edited row: the first row keeps
\* its quantity 2, the new second row is the first menu item at quantity 1
C17_RowAppended ==
  /\ ev.op = "addItem" /\ ev.alerts = <<>>
  /\ Len(selectedItems) = 2
  /\ selectedItems[1].quantity = 2
  /\ selectedItems[1].menu_item_id # menuItems[1].id
  /\ selectedItems[2] = [menu_item_id |-> menuItems[1].id, quantity |-> 1,
                         unit_price |-> menuItems[1].price]

\* ------------------------------------------------ edits up to the submit
MaxEditRows == 2

EditNext ==
  \/ OpenModal
  \/ Len(selectedItems) < MaxEditRows /\ addItem
  \/ \E k \in 1..MaxEditRows :
       \/ \E v \in Quantities : updateItem(k, "quantity", v)
       \/ \E v \in OverridePrices : updateItem(k, "unit_price", v)
       \/ \E v \in DraftItemIds : updateItem(k, "menu_item_id", v)
  \/ \E now \in SubmitInstants :
       Len(selectedItems) > 0 /\ ops < 1 /\ handleSubmit(now)
  \/ BackendBilling({"ok"})
  \/ ResumeBilling

SpecEdit == InitDraft /\ [][EditNext]_vars

\* C18: an updateItem(i, field, value) step keeps the number and order of
\* the rows and every row other than i; for quantity or unit_price it sets
\* that field of row i and keeps the other two (an overridden price stays
\* through a quantity edit); for menu_item_id of an item in the menu list it
\* sets the id, puts that item's price in unit_price and keeps the
\* quantity; for an id not in the menu list it changes nothing. The
\* unit_price written to bill_items is the one the draft row held at the
\* submit.
C18_UpdateItemChangesOneRow ==
  [][/\ ev'.op = "updateItem"
          => LET i == ev'.arg[1]
                 field == ev'.arg[2]
                 value == ev'.arg[3]
                 old == selectedItems[i]
                 new == selectedItems'[i]
             IN /\ Len(selectedItems') = Len(selectedItems)
                /\ \A j \in 1..Len(selectedItems) :
                     j # i => selectedItems'[j] = selectedItems[j]
                /\ field = "quantity"
                     => new = [menu_item_id |-> old.menu_item_id,
                               quantity |-> value,
                               unit_price |-> old.unit_price]
                /\ field = "unit_price"
                     => new = [menu_item_id |-> old.menu_item_id,
                               quantity |-> old.quantity,
                               unit_price |-> value]
                /\ field = "menu_item_id"
                     => IF \E m \in Range(menuItems) : m.id = value
                        THEN /\ new.menu_item_id = value
                             /\ new.quantity = old.quantity
                             /\ \E m \in Range(menuItems) :
                                  m.id = value /\ new.unit_price = m.price
                        ELSE selectedItems' = selectedItems
                /\ tasks' = tasks
                /\ UNCHANGED <<dbVars, menuItems, bills, showModal, formData>>
     /\ \A r \in db_bill_items' \ db_bill_items :
          /\ r.bill_id \in 1..Len(submitted')
          /\ r.id[2] \in 1..Len(submitted'[r.bill_id])
          /\ r.unit_price = submitted'[r.bill_id][r.id[2]].unit_price
          /\ r.quantity = submitted'[r.bill_id][r.id[2]].quantity]_vars

\* C18 witness: the quantity of row 1 was set to 2 after its price had been
\* overridden: row 1 still has the overridden price, which is not the price
\* of its menu item, and row 2 is as it was added
C18_OverrideKeptAcrossQuantityEdit ==
  /\ ev.op = "updateItem" /\ ev.arg = <<1, "quantity", 2>>
  /\ Len(selectedItems) = 2
  /\ selectedItems[1].unit_price \in OverridePrices
  /\ \A m \in Range(menuItems) :
       m.id = selectedItems[1].menu_item_id
         => m.price # selectedItems[1].unit_price
  /\ selectedItems[2] = NewRow(menuItems[1])

\* ------------------------------------- the menu edited from another session
MaxSharedOps == 2

\* the Menu screen of another session saves item id with Available unticked
\* (handleSaveItem's update-by-id, answered by the data store)
ItemMadeUnavailableElsewhere(id) ==
  /\ screen = "billing"
  /\ \E r \in db_menu_items :
       /\ r.id = id /\ r.is_available
       /\ db_menu_items' =
            (db_menu_items \ {r}) \cup {[r EXCEPT !.is_available = FALSE]}
  /\ ev' = Ev("elsewhere", id, <<>>)
  /\ UNCHANGED <<screen, db_menu_categories, db_bills, db_bill_items, db_seq,
                 loading, menuItems, billingVars, menuVars, tasks, hist>>

SharedNext ==
  \/ OpenModal
  \/ Len(selectedItems) < 1 /\ addItem
  \/ \E now \in SubmitInstants :
       Len(selectedItems) > 0 /\ ops < MaxSharedOps /\ handleSubmit(now)
  \/ BackendBilling({"ok"})
  \/ ResumeBilling
  \/ \E r \in db_menu_items : ItemMadeUnavailableElsewhere(r.id)

SpecShared == InitDraft /\ [][SharedNext]_vars

\* the name handleSubmit snapshots for item id out of the list menu
SnapshotName(menu, id) ==
  IF \E m \in Range(menu) : m.id = id
  THEN menu[CHOOSE k \in 1..Len(menu) :
              menu[k].id = id /\ \A j \in 1..(k - 1) : menu[j].id # id].name
  ELSE ""

\* the step in which the data store accepts a bill_items insert
BillItemsInserted ==
  /\ ev'.op = "backend" /\ ev'.arg = "insert bill_items"
  /\ db_bill_items' # db_bill_items

\* what that step writes: one row per draft row of the submission, under
\* the id of the bill the submission inserted
OneBillItemPerDraftRow ==
  \E i \in 1..Len(tasks), b \in db_bills :
    /\ tasks[i].kind = "handleSubmit" /\ tasks[i].pc = "items"
    /\ b.id \in 1..Len(submitted) /\ submitted[b.id] = tasks[i].selectedItems
    /\ \A r \in db_bill_items : r.bill_id # b.id
    /\ LET rows == tasks[i].selectedItems
           inserted == db_bill_items' \ db_bill_items
       IN /\ Cardinality(inserted) = Len(rows)
          /\ inserted =
               {[id |-> <<b.id, k>>,
                 bill_id |-> b.id,
                 menu_item_id |-> rows[k].menu_item_id,
                 menu_item_name |->
                   SnapshotName(tasks[i].menuItems, rows[k].menu_item_id),
                 quantity |-> rows[k].quantity,
                 unit_price |-> rows[k].unit_price,
                 total |-> rows[k].quantity * rows[k].unit_price] :
                  k \in 1..Len(rows)}

FormColumns(form) == DOMAIN form

\* row new is row old with the columns of form written and the rest kept
WrittenFrom(new, old, form) ==
  /\ DOMAIN new = DOMAIN old
  /\ \A c \in DOMAIN new :
       new[c] = IF c \in FormColumns(form) THEN form[c] ELSE old[c]

\* the table a save task writes, before and after the step
SaveTableOf(t) ==
  IF t.table = "menu_categories" THEN db_menu_categories ELSE db_menu_items

SaveTableAfter(t) ==
  IF t.table = "menu_categories" THEN db_menu_categories' ELSE db_menu_items'

\* C20: Edit on entity X opens the form in edit mode on X, filled with X's
\* fields, and Add opens it in create mode; the mode stays while the form
\* is open. Save takes the form values and the mode of that moment and
\* asks for the current user. With no user the save ends there: no
\* mutation, no reload, forms untouched. With a user, the one mutation of
\* the save is, in edit mode, an update of the row with X's id that writes
\* the form's columns, keeps every other row and adds none; in create mode
\* an insert of one new row with the form's columns and created_by = the
\* user's id that changes no existing row. The menu tables change in no
\* step other than a data-store answer.
C20_SaveIssuesOneMutationByMode ==
  [][/\ ev'.op = "editCategory"
          => \E c \in Range(categories) :
               /\ c.id = ev'.arg /\ editingCategory' = c
               /\ categoryForm' = CategoryFormOf(c) /\ showCategoryForm'
     /\ ev'.op = "editItem"
          => \E m \in Range(menuItems) :
               /\ m.id = ev'.arg /\ editingItem' = m
               /\ itemForm' = ItemFormOf(m) /\ showItemForm'
     /\ ev'.op = "OpenCategoryForm"
          => showCategoryForm' /\ editingCategory' = NoEntity
     /\ ev'.op = "OpenItemForm" => showItemForm' /\ editingItem' = NoEntity
     /\ showCategoryForm /\ showCategoryForm'
          => editingCategory' = editingCategory
     /\ showItemForm /\ showItemForm' => editingItem' = editingItem
     /\ ev'.op = "handleSaveCategory"
          => tasks' = Append(tasks, [kind |-> "handleSaveCategory",
                                     table |-> "menu_categories",
                                     pc |-> "getUser",
                                     form |-> categoryForm,
                                     editing |-> editingCategory,
                                     created_by |-> "", res |-> Pending])
     /\ ev'.op = "handleSaveItem"
          => tasks' = Append(tasks, [kind |-> "handleSaveItem",
                                     table |-> "menu_items",
                                     pc |-> "getUser",
                                     form |-> itemForm,
                                     editing |-> editingItem,
                                     created_by |-> "", res |-> Pending])
     /\ ev'.op \in {"handleSaveCategory:getUser", "handleSaveItem:getUser"}
          => \E i \in 1..Len(tasks) :
               /\ tasks[i].kind \in SaveHandlers /\ tasks[i].pc = "getUser"
               /\ UNCHANGED <<menuVars, loading>>
               /\ IF tasks[i].res.st = "ok"
                  THEN tasks' = [tasks EXCEPT ![i] =
                                   [@ EXCEPT !.pc = "save",
                                             !.created_by = user.id,
                                             !.res = Pending]]
                  ELSE /\ tasks' = RemoveAt(tasks, i)
                       /\ tasks[i].res.st = "error" => ev'.alerts = <<>>
     /\ (ev'.op = "backend" /\ ev'.arg = "save"
           /\ <<db_menu_categories, db_menu_items>>'
                # <<db_menu_categories, db_menu_items>>)
          => \E i \in 1..Len(tasks) :
               LET t == tasks[i]
                   old == SaveTableOf(t)
                   new == SaveTableAfter(t)
               IN /\ t.kind \in SaveHandlers /\ t.pc = "save"
                  /\ t.res.st = "pending" /\ tasks'[i].res.st = "ok"
                  /\ t.table = "menu_categories"
                       => db_menu_items' = db_menu_items
                  /\ t.table = "menu_items"
                       => db_menu_categories' = db_menu_categories
                  /\ IF t.editing.id # 0
                     THEN /\ {r.id : r \in new} = {r.id : r \in old}
                          /\ Cardinality(new) = Cardinality(old)
                          /\ \A r \in new : \E o \in old :
                               /\ o.id = r.id
                               /\ IF r.id = t.editing.id
                                  THEN WrittenFrom(r, o, t.form)
                                  ELSE r = o
                     ELSE /\ old \subseteq new
                          /\ Cardinality(new) = Cardinality(old) + 1
                          /\ \A r \in new \ old :
                               /\ r.id \notin {o.id : o \in old}
                               /\ r.created_by = user.id
                               /\ \A c \in FormColumns(t.form) :
                                    r[c] = t.form[c]
     /\ <<db_menu_categories, db_menu_items>>'
          # <<db_menu_categories, db_menu_items>> => ev'.op = "backend"]_vars

\* C20 witness: the data store has just applied the update of a save made
\* in edit mode on category 1: the row has the name typed in the form and
\* the creator it had, and the table has no other row
C20_EditedCategoryUpdated ==
  /\ ev.op = "backend" /\ ev.arg = "save"
  /\ \E r \in db_menu_categories :
       /\ r.id = 1 /\ r.name # "Pizza" /\ r.created_by = "u0"
       /\ db_menu_categories = {r}
  /\ \E i \in 1..Len(tasks) :
       tasks[i].kind = "handleSaveCategory" /\ tasks[i].editing.id = 1

\* the sum of the line totals of a set of bill_items rows
RECURSIVE LineTotalSum(_)
LineTotalSum(rows) ==
  IF rows = {} THEN 0
  ELSE LET r == CHOOSE x \in rows : TRUE
       IN r.total + LineTotalSum(rows \ {r})

\* C21: every bill in the data store that has bill items has a subtotal
\* equal to the sum of the line totals of its items, whatever was added,
\* removed, edited or cancelled in the form while the submission that wrote
\* them was in flight.
C21_SubtotalIsSumOfLineTotals ==
  \A b \in db_bills :
    ItemsOf(b.id) # {} => b.subtotal = LineTotalSum(ItemsOf(b.id))

\* C21 witness: the items of a bill created here have just been written,
\* and the draft in the form is no longer the one the submission captured
C21_ItemsWrittenAfterDraftChanged ==
  /\ ev.op = "backend" /\ ev.arg = "insert bill_items"
  /\ \E i \in 1..Len(tasks) :
       /\ tasks[i].kind = "handleSubmit" /\ tasks[i].pc = "items"
       /\ tasks[i].res.st = "ok"
       /\ tasks[i].selectedItems # selectedItems
       /\ selectedItems # <<>>
       /\ \E b \in db_bills :
            /\ b.id > 1 /\ ItemsOf(b.id) # {}
            /\ b.subtotal = RowSum(tasks[i].selectedItems)
            /\ b.subtotal # RowSum(selectedItems)

====
